---- MODULE Spec2Model ----
(***************************************************************************)
(* Verification model of obsidian-link-embed: the bounded-concurrency task *)
(* queue (ConcurrencyLimiter), the image-dimension resolver                *)
(* (getImageDimensions), the shared enrichment stage                       *)
(* (Parser.handleImageProcessing), the fallback protocol (tryParsers), the *)
(* adapters and scraping functions (process, getTitle, meetsCriteria), the *)
(* local scraping pipeline (LocalParser.parse), its page fetches through   *)
(* the shared limiter, repeated scrapes of one page, the callers of the    *)
(* favicon lookup (getFavicon) and the placeholder protocol (embedUrl).    *)
(***************************************************************************)
EXTENDS Integers, Sequences, FiniteSets, Bags, TLC

(* ---------------- bounds ---------------- *)
MaxTasks == 4
MaxCeiling == 3

MaxCalls == 6
MaxInFlight == 2
MaxParsers == 3

MaxStrLen == 2
MaxTags == 2
MaxDepth == 2
MaxImgs == 2
MaxFetches == 3
MaxRuns == 5
MaxLookups == 2
MaxEdits == 2

Tasks == 1..MaxTasks

(* ---------------- program constants ---------------- *)
MAX_LOAD_ATTEMPTS == 5
DEFAULT_IMAGE_DIMENSIONS == [width |-> 160, height |-> 160, aspectRatio |-> 100]

\* image keys (URLs or data URIs, used verbatim) and the natural sizes a load can measure
ImageKeys == {"imgA", "imgB"}
ImageSizes == {[width |-> 100, height |-> 300]}
NoDims == [width |-> 0, height |-> 0, aspectRatio |-> 0]

Range(s) == {s[i] : i \in DOMAIN s}

NoResult == [kind |-> "none", of |-> 0]
PendingPromise == [state |-> "pending", kind |-> "none", of |-> 0]

VARIABLES
    \* ConcurrencyLimiter fields
    queue,            \* FIFO of queue entries {task, resolve, reject}, named by task id
    runningTasks,
    maxConcurrency,
    \* JavaScript run-time state the limiter relies on
    microtasks,       \* FIFO microtask queue: jobs scheduled by Promise.resolve().then / await
    taskState,        \* position of every task: new, queued, admitted, executing, settled, done
    taskResult,       \* how the task itself settled
    promise,          \* the promise returned by enqueue(task)
    settleCalls,      \* number of resolve / reject calls made for the entry
    nextId,           \* number of enqueue calls so far; tasks are named in enqueue order
    startOrder,       \* history: task ids in the order their bodies were invoked
    ceilingFixed,     \* history: no setMaxConcurrency call has changed the ceiling
    \* image-dimension resolver: the caller-owned maps and the loads in flight
    cache,            \* Map<string, any>: DOMAIN cache is the set of keys it has
    imageLoadAttempts,\* Map<string, number>
    inflight,         \* bag of calls suspended on an image load (their closure: key,
                      \* attempts, maps)
    callsMade,        \* history: getImageDimensions calls made so far
    seqCalls,         \* history: calls made for the key, while its history is clean (else 0)
    lastOutcome,      \* history: the key of the latest settled call and how it settled
    clean,            \* history: the calls for the key were made one after another, each
                      \* with both maps, and no load succeeded
    failingLoads,     \* history: the loads started for the key, as long as every call for
                      \* it was given both maps and none of its loads succeeded
    reachedCeiling,   \* history: a call given both maps recorded the 5th failure for the key:
                      \* "no", "quiet" (no other load of the key in flight then) or "busy"
    \* Parser.handleImageProcessing: one enrichment run
    hipPc,            \* idle, favicon, vault, aspect (suspended at that stage), done, rejected
    hipInput,         \* processedData, as returned by process
    hipConfig,        \* parser class and vault-saving configuration
    hipResult,        \* the ParsedLinkData being built
    hipFailed,        \* history: stages that failed
    \* tryParsers: one call
    tpPc,             \* idle, parsing (suspended in await parser.parse), returned, rejected
    tpList,           \* selectedParsers
    tpKeys,           \* the API keys present in settings
    tpIdx,            \* idx (0-based, as in the code)
    tpAttempted,      \* history: parser names handed to createParser, in order
    tpErrors,         \* history: the errors caught, in order
    tpNotices,        \* the notices raised through showNotice, in order
    tpResult,         \* the value returned
    tpThrown,         \* the error the call rejected with
    \* one call of a scraping or adapter function (getTitle, meetsCriteria, process)
    scPc,             \* idle, returned
    scFn,             \* the function called
    scIn,             \* its argument
    scOut,            \* what it returned, or the error it threw
    \* LocalParser.parse: one call
    lpPc,             \* idle, electron, request (suspended in that fetch), favicon, image
                      \* (suspended in verifyImageUrl), faviconReturned, imageReturned
                      \* (the await continuation is pending), enrich, returned, rejected
    lpSteps,          \* history: the methods parse has called, in order
    lpHtml,           \* what each fetch yielded
    lpDom,            \* the part of the document the running scraping method reads
    lpIdx,            \* the candidate whose verification is awaited
    lpFailedUrls,     \* failedUrls of the running scraping method
    lpTried,          \* history: the verifications made by that method, in order
    lpLoaded,         \* history: the URLs whose load this parse has awaited so far
    lpScraped,        \* title, description, favicon, image found so far
    lpResult,         \* the ParsedLinkData returned
    lpThrown,         \* the error parse rejected with
    \* the page fetches of all LocalParser instances, run as tasks of the one limiter
    fetchKind,        \* per task: none, render (getHtmlByElectron), request (getHtmlByRequest)
    fetchPc,          \* per task: none, loading, evaluating, requesting (suspended there), or
                      \* how the body returned: noWindow, loadFailed, scriptFailed, rendered,
                      \* requestFailed, fetched
    window,           \* per task: the BrowserWindow of the render: none, open, closed
    loweredBusy,      \* history: initLimiter lowered the ceiling while tasks were running
    \* one page scraped again and again by LocalParser.parse
    rsDoc,            \* the document parsed from the page's HTML
    rsLoads,          \* the candidate URLs whose image loads; the others fail to load
    rsUseCache,       \* settings.useCache
    rsCache,          \* plugin.cache: the URLs that have an entry
    rsAttempts,       \* plugin.imageLoadAttempts (0: no entry)
    rsResults,        \* history: what each run returned, in order
    rsAtCeiling,      \* history: per run, the URLs whose counter had reached
                      \* MAX_LOAD_ATTEMPTS when the run began
    \* the callers of the page fetch for one page URL: LocalParser.parse, getFavicon
    \* (embedUtils) and the favicon branch of handleEmbedCodeBlock
    fvLimiter,        \* LocalParser.limiter is not null
    fvCache,          \* what plugin.cache holds under the page URL
    fvCalls,          \* per call: its kind, where it is suspended, what it returned
    fvReads,          \* history: the kinds of value a render took from the cache as favicon
    \* concurrent LocalParser.parse calls fetching their page through the limiter
    pfPc,             \* per parse: idle, render, request (awaiting that fetch), html, noHtml
    fetchOwner,       \* per task: the parse that enqueued it (0: none)
    \* one embedUrl call and the note it edits
    euPc,             \* idle, parsing (await tryParsers), delay (setTimeout), done
    euDoc,            \* the text in the editor: characters, "nl" ending a line
    euStart,          \* startCursor
    euEnd,            \* endCursor
    euParsed,         \* tryParsers returned a result
    euOutcome,        \* none, replaced, cancelled (the notice), failed
    euUserEdits       \* history: the edits the user made while the parse was in flight

limiterVars == <<queue, runningTasks, maxConcurrency, microtasks, taskState,
                 taskResult, promise, settleCalls, nextId, startOrder, ceilingFixed>>

imageVars == <<cache, imageLoadAttempts, inflight, callsMade, seqCalls,
               lastOutcome, clean, reachedCeiling, failingLoads>>

enrichVars == <<hipPc, hipInput, hipConfig, hipResult, hipFailed>>

tryVars == <<tpPc, tpList, tpKeys, tpIdx, tpAttempted, tpErrors, tpNotices,
             tpResult, tpThrown>>

scrapeVars == <<scPc, scFn, scIn, scOut>>

localVars == <<lpPc, lpSteps, lpHtml, lpDom, lpIdx, lpFailedUrls, lpTried, lpLoaded,
               lpScraped, lpResult, lpThrown>>

fetchVars == <<fetchKind, fetchPc, window, loweredBusy>>

rescrapeVars == <<rsDoc, rsLoads, rsUseCache, rsCache, rsAttempts, rsResults, rsAtCeiling>>

faviconVars == <<fvLimiter, fvCache, fvCalls, fvReads>>

parseFetchVars == <<pfPc, fetchOwner>>

embedVars == <<euPc, euDoc, euStart, euEnd, euParsed, euOutcome, euUserEdits>>

nonEmbedVars == <<limiterVars, imageVars, enrichVars, tryVars, scrapeVars, localVars, fetchVars, rescrapeVars, faviconVars, parseFetchVars>>

vars == <<limiterVars, imageVars, enrichVars, tryVars, scrapeVars, localVars, fetchVars, rescrapeVars, faviconVars, parseFetchVars, embedVars>>

nonLimiterVars == <<imageVars, enrichVars, tryVars, scrapeVars, localVars, fetchVars, rescrapeVars, faviconVars, parseFetchVars, embedVars>>
nonImageVars == <<limiterVars, enrichVars, tryVars, scrapeVars, localVars, fetchVars, rescrapeVars, faviconVars, parseFetchVars, embedVars>>
nonEnrichVars == <<limiterVars, imageVars, tryVars, scrapeVars, localVars, fetchVars, rescrapeVars, faviconVars, parseFetchVars, embedVars>>
nonTryVars == <<limiterVars, imageVars, enrichVars, scrapeVars, localVars, fetchVars, rescrapeVars, faviconVars, parseFetchVars, embedVars>>
nonScrapeVars == <<limiterVars, imageVars, enrichVars, tryVars, localVars, fetchVars, rescrapeVars, faviconVars, parseFetchVars, embedVars>>
nonLocalVars == <<limiterVars, imageVars, enrichVars, tryVars, scrapeVars, fetchVars, rescrapeVars, faviconVars, parseFetchVars, embedVars>>
nonFaviconVars == <<limiterVars, imageVars, enrichVars, tryVars, scrapeVars, localVars, fetchVars, rescrapeVars, parseFetchVars, embedVars>>
nonLimiterFetchVars == <<imageVars, enrichVars, tryVars, scrapeVars, localVars, rescrapeVars, faviconVars, parseFetchVars, embedVars>>

(* ======================= ConcurrencyLimiter ======================= *)

\* new ConcurrencyLimiter(c)
InitLimiterWith(c) ==
    /\ queue = << >>
    /\ runningTasks = 0
    /\ maxConcurrency = c
    /\ microtasks = << >>
    /\ taskState = [t \in Tasks |-> "new"]
    /\ taskResult = [t \in Tasks |-> NoResult]
    /\ promise = [t \in Tasks |-> PendingPromise]
    /\ settleCalls = [t \in Tasks |-> 0]
    /\ nextId = 0
    /\ startOrder = << >>
    /\ ceilingFixed = TRUE

\* processQueue with the off-by-one guard runningTasks <= maxConcurrency
ProcessQueue_admitOneMore(q, r, m, mt, ts) ==
    IF r <= m /\ Len(q) > 0
    THEN [queue |-> Tail(q), runningTasks |-> r + 1,
          microtasks |-> Append(mt, [kind |-> "start", t |-> Head(q)]),
          taskState |-> [ts EXCEPT ![Head(q)] = "admitted"]]
    ELSE [queue |-> q, runningTasks |-> r, microtasks |-> mt, taskState |-> ts]

\* processQueue with the guard one too strict: a slot is never filled
ProcessQueue_strictGuard(q, r, m, mt, ts) ==
    IF r + 1 < m /\ Len(q) > 0
    THEN [queue |-> Tail(q), runningTasks |-> r + 1,
          microtasks |-> Append(mt, [kind |-> "start", t |-> Head(q)]),
          taskState |-> [ts EXCEPT ![Head(q)] = "admitted"]]
    ELSE [queue |-> q, runningTasks |-> r, microtasks |-> mt, taskState |-> ts]

\* processQueue taking the newest entry (pop) instead of the oldest (shift)
ProcessQueue_lifo(q, r, m, mt, ts) ==
    IF r < m /\ Len(q) > 0
    THEN [queue |-> SubSeq(q, 1, Len(q) - 1), runningTasks |-> r + 1,
          microtasks |-> Append(mt, [kind |-> "start", t |-> q[Len(q)]]),
          taskState |-> [ts EXCEPT ![q[Len(q)]] = "admitted"]]
    ELSE [queue |-> q, runningTasks |-> r, microtasks |-> mt, taskState |-> ts]

\* processQueue calling task() itself instead of scheduling a microtask
ProcessQueue_synchronous(q, r, m, mt, ts) ==
    IF r < m /\ Len(q) > 0
    THEN [queue |-> Tail(q), runningTasks |-> r + 1, microtasks |-> mt,
          taskState |-> [ts EXCEPT ![Head(q)] = "executing"]]
    ELSE [queue |-> q, runningTasks |-> r, microtasks |-> mt, taskState |-> ts]

\* processQueue without the test of the ceiling
ProcessQueue_ignoresCeiling(q, r, m, mt, ts) ==
    IF Len(q) > 0
    THEN [queue |-> Tail(q), runningTasks |-> r + 1,
          microtasks |-> Append(mt, [kind |-> "start", t |-> Head(q)]),
          taskState |-> [ts EXCEPT ![Head(q)] = "admitted"]]
    ELSE [queue |-> q, runningTasks |-> r, microtasks |-> mt, taskState |-> ts]

\* processQueue(): one `if`, no loop; shift the head, runningTasks++, and
\* schedule the task's body on a fresh microtask (Promise.resolve().then).
ProcessQueue(q, r, m, mt, ts) ==
    IF r < m /\ Len(q) > 0
    THEN [queue |-> Tail(q), runningTasks |-> r + 1,
          microtasks |-> Append(mt, [kind |-> "start", t |-> Head(q)]),
          taskState |-> [ts EXCEPT ![Head(q)] = "admitted"]]
    ELSE [queue |-> q, runningTasks |-> r, microtasks |-> mt, taskState |-> ts]

\* catch branch that calls resolve instead of reject
SettleWith_alwaysResolve(res) ==
    [state |-> "fulfilled", kind |-> res.kind, of |-> res.of]

\* try { resolve(await task()) } catch (error) { reject(error) }
SettleWith(res) ==
    IF res.kind = "value"
    THEN [state |-> "fulfilled", kind |-> res.kind, of |-> res.of]
    ELSE [state |-> "rejected", kind |-> res.kind, of |-> res.of]

\* enqueue(task): the promise executor pushes the entry and calls processQueue
LimiterEnqueue ==
    LET t == nextId + 1
        pq == ProcessQueue(Append(queue, t), runningTasks, maxConcurrency,
                           microtasks, [taskState EXCEPT ![t] = "queued"])
    IN /\ nextId' = t
       /\ queue' = pq.queue
       /\ runningTasks' = pq.runningTasks
       /\ microtasks' = pq.microtasks
       /\ taskState' = pq.taskState
       /\ UNCHANGED <<maxConcurrency, taskResult, promise, settleCalls, startOrder,
                      ceilingFixed>>

Enqueue ==
    /\ nextId < MaxTasks
    /\ LimiterEnqueue
    /\ UNCHANGED nonLimiterVars

\* setMaxConcurrency(max): store the ceiling, then processQueue
LimiterSetMaxConcurrency(m) ==
    /\ LET pq == ProcessQueue(queue, runningTasks, m, microtasks, taskState)
       IN /\ maxConcurrency' = m
          /\ queue' = pq.queue
          /\ runningTasks' = pq.runningTasks
          /\ microtasks' = pq.microtasks
          /\ taskState' = pq.taskState
    /\ ceilingFixed' = (ceilingFixed /\ m = maxConcurrency)
    /\ UNCHANGED <<taskResult, promise, settleCalls, nextId, startOrder>>

SetMaxConcurrency(m) ==
    /\ LimiterSetMaxConcurrency(m)
    /\ UNCHANGED nonLimiterVars

\* a finally block that only decrements: the drain stops
Finally_stopsDrain(t, ts) ==
    /\ queue' = queue
    /\ runningTasks' = runningTasks - 1
    /\ microtasks' = Tail(microtasks)
    /\ taskState' = [ts EXCEPT ![t] = "done"]

\* the finally block: runningTasks--, processQueue
Finally(t, ts) ==
    LET pq == ProcessQueue(queue, runningTasks - 1, maxConcurrency,
                           Tail(microtasks), [ts EXCEPT ![t] = "done"])
    IN /\ queue' = pq.queue
       /\ runningTasks' = pq.runningTasks
       /\ microtasks' = pq.microtasks
       /\ taskState' = pq.taskState

\* the scheduled microtask runs: task() is called and returns a pending promise
LimiterStartTask ==
    /\ Len(microtasks) > 0
    /\ Head(microtasks).kind = "start"
    /\ LET t == Head(microtasks).t
       IN /\ taskState' = [taskState EXCEPT ![t] = "executing"]
          /\ startOrder' = Append(startOrder, t)
    /\ microtasks' = Tail(microtasks)
    /\ UNCHANGED <<queue, runningTasks, maxConcurrency, taskResult, promise,
                   settleCalls, nextId, ceilingFixed>>

StartTask ==
    /\ LimiterStartTask
    /\ UNCHANGED nonLimiterVars

\* the scheduled microtask runs and task() throws synchronously: the catch
\* and the finally block run in the same turn
StartTaskThrows ==
    /\ Len(microtasks) > 0
    /\ Head(microtasks).kind = "start"
    /\ LET t == Head(microtasks).t
           res == [kind |-> "error", of |-> t]
       IN /\ startOrder' = Append(startOrder, t)
          /\ taskResult' = [taskResult EXCEPT ![t] = res]
          /\ promise' = [promise EXCEPT ![t] =
                            IF @.state = "pending" THEN SettleWith(res) ELSE @]
          /\ settleCalls' = [settleCalls EXCEPT ![t] = @ + 1]
          /\ Finally(t, taskState)
    /\ UNCHANGED <<maxConcurrency, nextId, ceilingFixed>>
    /\ UNCHANGED nonLimiterVars

\* the promise returned by task() settles (I/O completion); the await's
\* continuation is queued as a microtask
LimiterTaskSettle(t, k) ==
    /\ taskState[t] = "executing"
    /\ taskState' = [taskState EXCEPT ![t] = "settled"]
    /\ taskResult' = [taskResult EXCEPT ![t] = [kind |-> k, of |-> t]]
    /\ microtasks' = Append(microtasks, [kind |-> "cont", t |-> t])
    /\ UNCHANGED <<queue, runningTasks, maxConcurrency, promise, settleCalls,
                   nextId, startOrder, ceilingFixed>>

TaskSettle(t, k) ==
    /\ LimiterTaskSettle(t, k)
    /\ UNCHANGED nonLimiterVars

\* the await continuation: resolve(result) or reject(error), then finally
LimiterCompleteTask ==
    /\ Len(microtasks) > 0
    /\ Head(microtasks).kind = "cont"
    /\ LET t == Head(microtasks).t
       IN /\ promise' = [promise EXCEPT ![t] =
                            IF @.state = "pending" THEN SettleWith(taskResult[t]) ELSE @]
          /\ settleCalls' = [settleCalls EXCEPT ![t] = @ + 1]
          /\ Finally(t, taskState)
    /\ UNCHANGED <<maxConcurrency, taskResult, nextId, startOrder, ceilingFixed>>

CompleteTask ==
    /\ LimiterCompleteTask
    /\ UNCHANGED nonLimiterVars

RunMicrotask == StartTask \/ StartTaskThrows \/ CompleteTask

TaskSettles(t) == TaskSettle(t, "value") \/ TaskSettle(t, "error")

NextLimiter ==
    \/ Enqueue
    \/ \E m \in 1..MaxCeiling : SetMaxConcurrency(m)
    \/ StartTask
    \/ StartTaskThrows
    \/ \E t \in Tasks : TaskSettle(t, "value")
    \/ \E t \in Tasks : TaskSettle(t, "error")
    \/ CompleteTask

(* ======================= getImageDimensions ======================= *)

MapSet(f, k, v) == [x \in (DOMAIN f) \cup {k} |-> IF x = k THEN v ELSE f[x]]
MapDelete(f, k) == [x \in (DOMAIN f) \ {k} |-> f[x]]

\* aspectRatio = (img.height / img.width) * 100
AspectRatio(w, h) == (h * 100) \div w
Measure(size) ==
    [width |-> size.width, height |-> size.height,
     aspectRatio |-> AspectRatio(size.width, size.height)]

NotCounted == [loads |-> 0, counted |-> FALSE]
NoOutcome == [key |-> "none", how |-> "none", value |-> NoDims, via |-> "none"]

\* the suspended calls that are loading the key
LoadsOf(b, k) == [c \in {x \in BagToSet(b) : x.key = k} |-> b[c]]

InitImage ==
    /\ cache = << >>
    /\ imageLoadAttempts = << >>
    /\ inflight = EmptyBag
    /\ callsMade = 0
    /\ seqCalls = [k \in ImageKeys |-> 0]
    /\ lastOutcome = NoOutcome
    /\ clean = [k \in ImageKeys |-> TRUE]
    /\ reachedCeiling = [k \in ImageKeys |-> "no"]
    /\ failingLoads = [k \in ImageKeys |-> [loads |-> 0, counted |-> TRUE]]

\* cache check that never hits
CacheHit_never(c, k, withCache) == FALSE

\* if (cache && cache.has(imageUrl))
CacheHit(c, k, withCache) == withCache /\ k \in DOMAIN c

\* imageLoadAttempts && imageLoadAttempts.has(imageUrl) ? imageLoadAttempts.get(imageUrl) : 0
AttemptsOf(ila, k, withCounter) ==
    IF withCounter /\ k \in DOMAIN ila THEN ila[k] ELSE 0

\* ceiling test written with > instead of >=
AtCeiling_strict(n) == n > MAX_LOAD_ATTEMPTS

\* attempts >= MAX_LOAD_ATTEMPTS
AtCeiling(n) == n >= MAX_LOAD_ATTEMPTS

\* the default is returned but not memoized
StoreDefault_forgets(c, k, withCache) == c

\* if (cache) cache.set(imageUrl, DEFAULT_IMAGE_DIMENSIONS)
StoreDefault(c, k, withCache) ==
    IF withCache THEN MapSet(c, k, DEFAULT_IMAGE_DIMENSIONS) ELSE c

\* getImageDimensions(imageUrl, cache, imageLoadAttempts) up to its first
\* suspension: cached value, default at the ceiling, or a new image load
GetImageDimensions(k, withCache, withCounter) ==
    /\ callsMade < MaxCalls
    /\ LET attempts == AttemptsOf(imageLoadAttempts, k, withCounter)
       IN IF CacheHit(cache, k, withCache)
          THEN /\ lastOutcome' = [key |-> k, how |-> "returned",
                                   value |-> cache[k], via |-> "cache"]
               /\ UNCHANGED <<cache, inflight>>
          ELSE IF AtCeiling(attempts)
          THEN /\ cache' = StoreDefault(cache, k, withCache)
               /\ lastOutcome' = [key |-> k, how |-> "returned",
                                   value |-> DEFAULT_IMAGE_DIMENSIONS, via |-> "ceiling"]
               /\ UNCHANGED inflight
          ELSE /\ BagCardinality(inflight) < MaxInFlight
               /\ inflight' = inflight (+) SetToBag(
                     {[key |-> k, attempts |-> attempts,
                       withCache |-> withCache, withCounter |-> withCounter,
                       late |-> reachedCeiling[k] # "no"]})
               /\ UNCHANGED <<cache, lastOutcome>>
    /\ callsMade' = callsMade + 1
    /\ failingLoads' = [failingLoads EXCEPT ![k] =
          IF ~@.counted \/ ~(withCache /\ withCounter) THEN NotCounted
          ELSE IF CacheHit(cache, k, withCache)
                  \/ AtCeiling(AttemptsOf(imageLoadAttempts, k, withCounter))
               THEN @ ELSE [@ EXCEPT !.loads = @ + 1]]
    /\ LET stillClean == clean[k] /\ withCache /\ withCounter
                          /\ LoadsOf(inflight, k) = EmptyBag
       IN /\ clean' = [clean EXCEPT ![k] = stillClean]
          /\ seqCalls' = [seqCalls EXCEPT ![k] = IF stillClean THEN @ + 1 ELSE 0]
    /\ UNCHANGED <<imageLoadAttempts, reachedCeiling>>
    /\ UNCHANGED nonImageVars

\* img.onload: measure, memoize, reset the failure counter, resolve
ImgOnLoad(c, size) ==
    /\ BagIn(c, inflight)
    /\ inflight' = inflight (-) SetToBag({c})
    /\ cache' = IF c.withCache THEN MapSet(cache, c.key, Measure(size)) ELSE cache
    /\ imageLoadAttempts' =
          IF c.attempts > 0 /\ c.withCounter
          THEN MapDelete(imageLoadAttempts, c.key) ELSE imageLoadAttempts
    /\ lastOutcome' = [key |-> c.key, how |-> "returned",
                        value |-> Measure(size), via |-> "load"]
    /\ clean' = [clean EXCEPT ![c.key] = FALSE]
    /\ seqCalls' = [seqCalls EXCEPT ![c.key] = 0]
    /\ failingLoads' = [failingLoads EXCEPT ![c.key] = NotCounted]
    /\ UNCHANGED <<callsMade, reachedCeiling>>
    /\ UNCHANGED nonImageVars

\* img.onerror: count the attempt; at the ceiling memoize and resolve the
\* default, below it reject
ImgOnError(c) ==
    /\ BagIn(c, inflight)
    /\ inflight' = inflight (-) SetToBag({c})
    /\ LET newAttempts == c.attempts + 1
       IN /\ imageLoadAttempts' =
                IF c.withCounter
                THEN MapSet(imageLoadAttempts, c.key, newAttempts) ELSE imageLoadAttempts
          /\ IF AtCeiling(newAttempts)
             THEN /\ cache' = StoreDefault(cache, c.key, c.withCache)
                  /\ lastOutcome' = [key |-> c.key, how |-> "returned",
                                      value |-> DEFAULT_IMAGE_DIMENSIONS, via |-> "load"]
             ELSE /\ cache' = cache
                  /\ lastOutcome' = [key |-> c.key, how |-> "rejected",
                                      value |-> NoDims, via |-> "load"]
          /\ reachedCeiling' = [reachedCeiling EXCEPT ![c.key] =
                IF @ = "no" /\ c.withCache /\ c.withCounter /\ newAttempts >= MAX_LOAD_ATTEMPTS
                THEN (IF LoadsOf(inflight', c.key) = EmptyBag THEN "quiet" ELSE "busy")
                ELSE @]
    /\ UNCHANGED <<callsMade, seqCalls, clean, failingLoads>>
    /\ UNCHANGED nonImageVars

NextImage ==
    \/ \E k \in ImageKeys, wc \in BOOLEAN, wn \in BOOLEAN : GetImageDimensions(k, wc, wn)
    \/ \E c \in BagToSet(inflight), size \in ImageSizes : ImgOnLoad(c, size)
    \/ \E c \in BagToSet(inflight) : ImgOnError(c)

(* ================= Parser.handleImageProcessing ================= *)

Absent == -1
PageUrl == "https://page"
LocalPath == "link-embed-images/image.png"
Titles == {"Title A", "Title B"}
Descriptions == {"", "Some text"}
ImageUrls == {"", "https://img", "data:image"}
Favicons == {"", "https://icon"}
ParserTypes == {"LocalParser", "MicroLinkParser"}

NoData == [title |-> "", image |-> "", description |-> "", favicon |-> ""]
NoParsed == [title |-> "", image |-> "", description |-> "", url |-> "",
             favicon |-> "", aspectRatio |-> Absent]

InitEnrich ==
    /\ hipPc = "idle"
    /\ hipInput = NoData
    /\ hipConfig = [parserType |-> "LocalParser", saveImagesToVault |-> FALSE, vault |-> FALSE,
                    createdBy |-> "caller"]
    /\ hipResult = NoParsed
    /\ hipFailed = {}

\* who creates the parser: tryParsers, or a caller that holds the vault
\* (the plugin's commands) or passes null itself
Creators == {"tryParsers", "caller"}

\* the third argument of createParser: tryParsers always passes null
VaultPassedBy(creator, hasVault) ==
    IF creator = "tryParsers" THEN FALSE ELSE hasVault

\* createParser's tail: parser.vault = vault;
\* parser.saveImagesToVault = settings.saveImagesToVault || false
ConfigureParser(parserType, saveSetting, creator, hasVault) ==
    [parserType |-> parserType, saveImagesToVault |-> saveSetting,
     vault |-> VaultPassedBy(creator, hasVault), createdBy |-> creator]

\* !result.favicon && this.constructor.name !== 'LocalParser'
NeedsFavicon(res, cfg) == res.favicon = "" /\ cfg.parserType # "LocalParser"
\* this.saveImagesToVault && processedData.image && this.vault
NeedsVault(pd, cfg) == cfg.saveImagesToVault /\ pd.image # "" /\ cfg.vault
\* result.image && result.image.length > 0
NeedsAspect(res) == res.image # ""

\* the stage at which the handler suspends next, from the aspect-ratio stage on
StageFromAspect(res) == IF NeedsAspect(res) THEN "aspect" ELSE "done"
StageFromVault(res, pd, cfg) == IF NeedsVault(pd, cfg) THEN "vault" ELSE StageFromAspect(res)
StageFromFavicon(res, pd, cfg) ==
    IF NeedsFavicon(res, cfg) THEN "favicon" ELSE StageFromVault(res, pd, cfg)

\* downloadImageToVault: data URLs and empty URLs are returned as is; every
\* failure inside is caught and the original URL returned
DownloadImageToVault(url, ok) ==
    IF url = "" \/ url = "data:image" THEN url
    ELSE IF ok THEN LocalPath ELSE url

\* a catch block that rethrows instead of logging
OnEnrichError_rethrows(next) == "rejected"

\* catch (error) { console.error(...) }: the stage's failure is swallowed
OnEnrichError(next) == next

\* handleImageProcessing(processedData, url) up to its first await:
\* result = { ...processedData, url }
HandleImageProcessing(pd, cfg) ==
    /\ hipPc = "idle"
    /\ hipInput' = pd
    /\ hipConfig' = cfg
    /\ LET res == [title |-> pd.title, image |-> pd.image, description |-> pd.description,
                   url |-> PageUrl, favicon |-> pd.favicon, aspectRatio |-> Absent]
       IN /\ hipResult' = res
          /\ hipPc' = StageFromFavicon(res, pd, cfg)
    /\ hipFailed' = {}
    /\ UNCHANGED nonEnrichVars

\* stage 1: plugin.fetchFavicon(url) is missing, returns a favicon or nothing
FaviconBackfill(out) ==
    /\ hipPc = "favicon"
    /\ LET res == IF out = "found" THEN [hipResult EXCEPT !.favicon = "https://icon"]
                  ELSE hipResult
       IN /\ hipResult' = res
          /\ hipPc' = StageFromVault(res, hipInput, hipConfig)
    /\ UNCHANGED <<hipInput, hipConfig, hipFailed>>
    /\ UNCHANGED nonEnrichVars

\* stage 1 throws: caught and logged
FaviconBackfillFails ==
    /\ hipPc = "favicon"
    /\ hipPc' = OnEnrichError(StageFromVault(hipResult, hipInput, hipConfig))
    /\ hipFailed' = hipFailed \cup {"favicon"}
    /\ UNCHANGED <<hipInput, hipConfig, hipResult>>
    /\ UNCHANGED nonEnrichVars

\* stage 2: result.image = await downloadImageToVault(...)
VaultSave(ok) ==
    /\ hipPc = "vault"
    /\ LET res == [hipResult EXCEPT !.image = DownloadImageToVault(hipInput.image, ok)]
       IN /\ hipResult' = res
          /\ hipPc' = StageFromAspect(res)
    /\ hipFailed' = IF ok THEN hipFailed ELSE hipFailed \cup {"vault"}
    /\ UNCHANGED <<hipInput, hipConfig>>
    /\ UNCHANGED nonEnrichVars

\* stage 3: getImageDimensions(result.image, cache) resolves (to dimensions or null)
AspectResolved(dims) ==
    /\ hipPc = "aspect"
    /\ hipResult' = IF dims = NoDims THEN hipResult
                    ELSE [hipResult EXCEPT !.aspectRatio = dims.aspectRatio]
    /\ hipPc' = "done"
    /\ hipFailed' = IF dims = NoDims THEN hipFailed \cup {"aspectNull"} ELSE hipFailed
    /\ UNCHANGED <<hipInput, hipConfig>>
    /\ UNCHANGED nonEnrichVars

\* stage 3 rejects (load failure below the ceiling): caught and logged
AspectFails ==
    /\ hipPc = "aspect"
    /\ hipPc' = OnEnrichError("done")
    /\ hipFailed' = hipFailed \cup {"aspect"}
    /\ UNCHANGED <<hipInput, hipConfig, hipResult>>
    /\ UNCHANGED nonEnrichVars

NextEnrich ==
    \/ \E t \in Titles, i \in ImageUrls, d \in Descriptions, f \in Favicons,
          p \in ParserTypes, s \in BOOLEAN, by \in Creators, v \in BOOLEAN :
          HandleImageProcessing([title |-> t, image |-> i, description |-> d, favicon |-> f],
                                ConfigureParser(p, s, by, v))
    \/ \E out \in {"noPlugin", "empty", "found"} : FaviconBackfill(out)
    \/ FaviconBackfillFails
    \/ \E ok \in BOOLEAN : VaultSave(ok)
    \/ \E size \in ImageSizes : AspectResolved(Measure(size))
    \/ AspectResolved(DEFAULT_IMAGE_DIMENSIONS)
    \/ AspectResolved(NoDims)
    \/ AspectFails

(* ========================== tryParsers ========================== *)

ParserNames == {"local", "microlink", "jsonlink", "iframely", "linkpreview", "bogus"}
KeyedParsers == {"jsonlink", "iframely", "linkpreview"}

\* every list of parser names of length 0..n
RECURSIVE ListsUpTo(_)
ListsUpTo(n) ==
    IF n = 0 THEN {<< >>}
    ELSE LET shorter == ListsUpTo(n - 1)
         IN shorter \cup {Append(l, p) : l \in {x \in shorter : Len(x) = n - 1}, p \in ParserNames}

NoError == [kind |-> "none", at |-> -1]
NoTryResult == [data |-> [by |-> "", at |-> -1], selectedParser |-> ""]

InitTry ==
    /\ tpPc = "idle"
    /\ tpList = << >>
    /\ tpKeys = {}
    /\ tpIdx = 0
    /\ tpAttempted = << >>
    /\ tpErrors = << >>
    /\ tpNotices = << >>
    /\ tpResult = NoTryResult
    /\ tpThrown = NoError

\* the options tryParsers hands to showNotice: { debug, context, type: 'error' }
\* (no showNotice field)
TryNoticeOptions == [type |-> "error", context |-> "Link Embed - Parser"]

\* showNotice(message, options): const { showNotice = true } = options;
\* if (showNotice) return new Notice(...): whether the user sees a notice
NoticeShown(options) ==
    IF "showNotice" \in DOMAIN options THEN options.showNotice ELSE TRUE

\* the linkpreview case forgets its key check
CreateParser_keyless(name, keys) ==
    IF name \in KeyedParsers \ {"linkpreview"}
    THEN IF name \in keys THEN [ok |-> TRUE, kind |-> name]
         ELSE [ok |-> FALSE, kind |-> "MissingCredential"]
    ELSE IF name \in {"microlink", "local", "linkpreview"} THEN [ok |-> TRUE, kind |-> name]
    ELSE [ok |-> FALSE, kind |-> "UnknownParser"]

\* createParser(parserType, settings, null): the parser class, or the error thrown
CreateParser(name, keys) ==
    IF name \in KeyedParsers
    THEN IF name \in keys THEN [ok |-> TRUE, kind |-> name]
         ELSE [ok |-> FALSE, kind |-> "MissingCredential"]
    ELSE IF name \in {"microlink", "local"} THEN [ok |-> TRUE, kind |-> name]
    ELSE [ok |-> FALSE, kind |-> "UnknownParser"]

\* the result is tagged with the first parser of the list
TaggedResult_first(list, i, data) == [data |-> data, selectedParser |-> list[1]]

\* return { data, selectedParser }
TaggedResult(list, i, data) == [data |-> data, selectedParser |-> list[i + 1]]

\* the test that never recognises the last parser: the loop runs off the list
IsLastParser_never(i, list) == FALSE

\* the catch block rethrows whatever it caught
IsLastParser_always(i, list) == TRUE

\* idx += 1; if (idx === selectedParsers.length)
IsLastParser(i, list) == i = Len(list)

RECURSIVE LoopFrom(_, _, _, _)

\* parser.parse(url) is not awaited: the loop goes on to the next parser
\* while the attempt is in flight
LoopFrom_notAwaited(i, list, keys, st) ==
    IF ~(i < Len(list)) THEN [st EXCEPT !.pc = "parsing", !.idx = i - 1]
    ELSE LoopFrom(i + 1, list, keys, [st EXCEPT !.attempted = Append(@, list[i + 1])])

\* the while loop from index i (0-based) to its next suspension: parsers whose
\* creation throws are handled by the catch block in the same turn
LoopFrom(i, list, keys, st) ==
    IF ~(i < Len(list))
    THEN [st EXCEPT !.pc = "rejected", !.idx = i,
                    !.thrown = [kind |-> "AllParsersFailed", at |-> -1]]
    ELSE LET cp == CreateParser(list[i + 1], keys)
             tried == [st EXCEPT !.attempted = Append(@, list[i + 1])]
         IN IF cp.ok
            THEN [tried EXCEPT !.pc = "parsing", !.idx = i]
            ELSE LET err == [kind |-> cp.kind, at |-> i]
                     caught == [tried EXCEPT !.errors = Append(@, err),
                                             !.notices = IF NoticeShown(TryNoticeOptions)
                                                         THEN Append(@, err) ELSE @]
                 IN IF IsLastParser(i + 1, list)
                    THEN [caught EXCEPT !.pc = "rejected", !.idx = i + 1, !.thrown = err]
                    ELSE LoopFrom(i + 1, list, keys, caught)

TryState ==
    [pc |-> tpPc, idx |-> tpIdx, attempted |-> tpAttempted, errors |-> tpErrors,
     notices |-> tpNotices, thrown |-> tpThrown]

SetTryState(st) ==
    /\ tpPc' = st.pc
    /\ tpIdx' = st.idx
    /\ tpAttempted' = st.attempted
    /\ tpErrors' = st.errors
    /\ tpNotices' = st.notices
    /\ tpThrown' = st.thrown

\* tryParsers(url, selectedParsers, settings, locationInfo) up to the first await
TryParsers(list, keys) ==
    /\ tpPc = "idle"
    /\ tpList' = list
    /\ tpKeys' = keys
    /\ SetTryState(LoopFrom(0, list, keys, TryState))
    /\ UNCHANGED tpResult
    /\ UNCHANGED nonTryVars

\* await parser.parse(url) fulfils: return { data, selectedParser }
ParseSucceeds ==
    /\ tpPc = "parsing"
    /\ tpPc' = "returned"
    /\ tpResult' = TaggedResult(tpList, tpIdx, [by |-> tpList[tpIdx + 1], at |-> tpIdx])
    /\ UNCHANGED <<tpList, tpKeys, tpIdx, tpAttempted, tpErrors, tpNotices, tpThrown>>
    /\ UNCHANGED nonTryVars

\* await parser.parse(url) rejects: showNotice, idx += 1, rethrow after the
\* last parser, otherwise go round the loop
ParseFails ==
    /\ tpPc = "parsing"
    /\ LET err == [kind |-> "ParseFailure", at |-> tpIdx]
           caught == [TryState EXCEPT !.errors = Append(@, err),
                                      !.notices = IF NoticeShown(TryNoticeOptions)
                                                  THEN Append(@, err) ELSE @]
       IN IF IsLastParser(tpIdx + 1, tpList)
          THEN SetTryState([caught EXCEPT !.pc = "rejected", !.idx = tpIdx + 1,
                                          !.thrown = err])
          ELSE SetTryState(LoopFrom(tpIdx + 1, tpList, tpKeys, caught))
    /\ UNCHANGED <<tpList, tpKeys, tpResult>>
    /\ UNCHANGED nonTryVars

NextTry ==
    \/ /\ tpPc = "idle"
       /\ \E list \in ListsUpTo(MaxParsers), keys \in SUBSET KeyedParsers :
             TryParsers(list, keys)
    \/ ParseSucceeds
    \/ ParseFails

(* ============ scraping and adapter functions (pure) ============ *)

\* every sequence over S of length 0..n
RECURSIVE SeqsUpTo(_, _)
SeqsUpTo(S, n) ==
    IF n = 0 THEN {<< >>}
    ELSE LET shorter == SeqsUpTo(S, n - 1)
         IN shorter \cup {Append(l, x) : l \in {y \in shorter : Len(y) = n - 1}, x \in S}

\* strings are sequences of characters: a letter, a newline, a backslash
\* (and the space that replaces a newline)
Chars == {"a", "nl", "bs"}
Strings == SeqsUpTo(Chars, MaxStrLen)

\* URLs are sequences of tokens
ImgUrl == <<"https://img">>
MaxResUrl == <<"https://img/", "maxresdefault", ".jpg">>
IconUrl == <<"https://icon">>

\* str.replace(/c/g, with)
RECURSIVE ReplaceAll(_, _, _)
ReplaceAll(str, ch, with) ==
    IF str = << >> THEN << >>
    ELSE (IF Head(str) = ch THEN with ELSE <<Head(str)>>) \o ReplaceAll(Tail(str), ch, with)

\* x.replace(/\n/g, ' ').replace(/\\/g, '\\\\')
Sanitize(str) == ReplaceAll(ReplaceAll(str, "nl", <<"sp">>), "bs", <<"bs", "bs">>)

\* obj.f || '' (a missing field is undefined)
OrEmpty(obj, f) == IF f \in DOMAIN obj THEN obj[f] ELSE << >>

\* obj.f?.url || ''
UrlOf(obj, f) == IF f \in DOMAIN obj THEN OrEmpty(obj[f], "url") ELSE << >>

\* reading a property of undefined
TypeError == [ok |-> FALSE, error |-> "TypeError"]

Processed(title, image, description) ==
    [ok |-> TRUE, title |-> title, image |-> image, description |-> description]

\* JSONLinkParser.process
JSONLinkProcess(data) ==
    IF "images" \notin DOMAIN data THEN TypeError
    ELSE Processed(OrEmpty(data, "title"),
                   IF data["images"] = << >> THEN << >> ELSE data["images"][1],
                   Sanitize(OrEmpty(data, "description")))

\* MicroLinkParser.process
MicroLinkProcess(data) ==
    IF "data" \notin DOMAIN data THEN TypeError
    ELSE LET d == data["data"]
             image == UrlOf(d, "image")
             logo == UrlOf(d, "logo")
         IN Processed(OrEmpty(d, "title"),
                      IF image # << >> THEN image ELSE logo,
                      Sanitize(OrEmpty(d, "description")))

\* best.includes('maxresdefault')
IsMaxRes(url) == "maxresdefault" \in Range(url)

\* thumbnails.reduce((best, thumb) => ..., '')
RECURSIVE BestThumb(_, _)
BestThumb(best, thumbs) ==
    IF thumbs = << >> THEN best
    ELSE LET href == Head(thumbs)["href"]
             next == IF IsMaxRes(best) THEN best
                     ELSE IF IsMaxRes(href) \/ best = << >> THEN href
                     ELSE best
         IN BestThumb(next, Tail(thumbs))

\* IframelyParser.process
IframelyProcess(data) ==
    LET meta == IF "meta" \in DOMAIN data THEN data["meta"] ELSE << >>
        thumbnails == IF "links" \in DOMAIN data /\ "thumbnail" \in DOMAIN data["links"]
                      THEN data["links"]["thumbnail"] ELSE << >>
    IN Processed(OrEmpty(meta, "title"),
                 BestThumb(<< >>, thumbnails),
                 Sanitize(OrEmpty(meta, "description")))

\* LinkPreviewParser.process
LinkPreviewProcess(data) ==
    Processed(OrEmpty(data, "title"), OrEmpty(data, "image"),
              Sanitize(OrEmpty(data, "description")))

\* LocalParser.process
LocalProcess(data) ==
    [ok |-> TRUE,
     title |-> Sanitize(OrEmpty(data, "title")),
     image |-> OrEmpty(data, "image"),
     description |-> Sanitize(OrEmpty(data, "description")),
     favicon |-> OrEmpty(data, "favicon")]

RemoteVariants == {"jsonlink", "microlink", "iframely", "linkpreview"}

Process(variant, data) ==
    CASE variant = "jsonlink" -> JSONLinkProcess(data)
      [] variant = "microlink" -> MicroLinkProcess(data)
      [] variant = "iframely" -> IframelyProcess(data)
      [] variant = "linkpreview" -> LinkPreviewProcess(data)
      [] variant = "local" -> LocalProcess(data)

\* an object with the field f (one of the values of S) or without it
OptField(f, S) == {<< >>} \cup {[x \in {f} |-> v] : v \in S}

\* the JSON bodies an endpoint can answer with, fields present or missing
JSONLinkInputs ==
    {t @@ i @@ d : t \in OptField("title", Strings),
                   i \in OptField("images", {<< >>, <<ImgUrl>>}),
                   d \in OptField("description", Strings)}

MicroLinkInputs ==
    {<< >>} \cup
    {[x \in {"data"} |-> t @@ i @@ l @@ d] :
        t \in OptField("title", Strings),
        i \in OptField("image", OptField("url", {ImgUrl})),
        l \in OptField("logo", OptField("url", {IconUrl})),
        d \in OptField("description", Strings)}

IframelyInputs ==
    {m @@ l : m \in OptField("meta", {t @@ d : t \in OptField("title", Strings),
                                               d \in OptField("description", Strings)}),
              l \in OptField("links",
                       OptField("thumbnail",
                          SeqsUpTo({[href |-> ImgUrl], [href |-> MaxResUrl]}, MaxTags)))}

LinkPreviewInputs ==
    {t @@ i @@ d : t \in OptField("title", Strings),
                   i \in OptField("image", {ImgUrl}),
                   d \in OptField("description", Strings)}

\* what LocalParser.parse hands to process: the scraped strings
LocalInputs ==
    {[title |-> t, image |-> i, description |-> d, favicon |-> f] :
        t \in Strings, i \in {<< >>, ImgUrl}, d \in Strings, f \in {IconUrl}}

InputsOf(variant) ==
    CASE variant = "jsonlink" -> JSONLinkInputs
      [] variant = "microlink" -> MicroLinkInputs
      [] variant = "iframely" -> IframelyInputs
      [] variant = "linkpreview" -> LinkPreviewInputs
      [] variant = "local" -> LocalInputs

(* ---- LocalParser.getTitle ---- *)

\* the og:title meta elements and the title elements of a document, each in
\* document order, with the part of the document they sit in
TitleTexts == {<< >>, <<"a">>, <<"b">>}
TagPlaces == {"head", "body"}
MetaElems == {[where |-> w, content |-> c] : w \in TagPlaces, c \in TitleTexts}
TitleElems == {[where |-> w, text |-> c] : w \in TagPlaces, c \in TitleTexts}
TitleDocs ==
    {[metas |-> m, titles |-> t] : m \in SeqsUpTo(MetaElems, MaxTags),
                                   t \in SeqsUpTo(TitleElems, MaxTags)}
PageURL == [href |-> <<"https://", "example.com", "/page">>, hostname |-> <<"example.com">>]

InHead(e) == e.where = "head"

\* the selectors lose their "head " prefix
GetTitle_anywhere(doc, url) ==
    IF doc.metas # << >> THEN doc.metas[1].content
    ELSE IF doc.titles # << >> THEN doc.titles[1].text
    ELSE url.hostname

\* doc.querySelector('head meta[property="og:title"]') -> element.content;
\* doc.querySelector('head title') -> element.textContent; url.hostname
GetTitle(doc, url) ==
    LET metas == SelectSeq(doc.metas, InHead)
        titles == SelectSeq(doc.titles, InHead)
    IN IF metas # << >> THEN metas[1].content
       ELSE IF titles # << >> THEN titles[1].text
       ELSE url.hostname

(* ---- LocalParser.meetsCriteria ---- *)

\* /display:\s*none/.test(style): style attributes are sequences of tokens
MatchesDisplayNone(style) ==
    \E i \in DOMAIN style, j \in DOMAIN style :
        /\ i < j
        /\ style[i] = "display:"
        /\ style[j] = "none"
        /\ \A k \in (i + 1)..(j - 1) : style[k] = "ws"

\* toLowerCase, token by token
LowerToken(t) ==
    CASE t = "Logo" -> "logo"
      [] t = "LOGO" -> "logo"
      [] t = "Header" -> "header"
      [] t = "HEADER" -> "header"
      [] t = ".SVG" -> ".svg"
      [] OTHER -> t
ToLowerCase(str) == [i \in DOMAIN str |-> LowerToken(str[i])]

\* src.toLowerCase().includes('logo') || alt.toLowerCase().includes('logo')
\* || src.endsWith('.svg'), for an HTMLImageElement
IsLogoImage(el) ==
    /\ el.isImg
    /\ \/ "logo" \in Range(ToLowerCase(el.src))
       \/ "logo" \in Range(ToLowerCase(el.alt))
       \/ (el.src # << >> /\ el.src[Len(el.src)] = ".svg")

\* element.id.toLowerCase().includes('header') || contains_header
HeaderMarked(el) ==
    \/ "header" \in Range(ToLowerCase(el.id))
    \/ \E c \in el.classes : "header" \in Range(ToLowerCase(c))

\* the logo test is made before the display:none test
OwnVerdict_logoFirst(el) ==
    IF IsLogoImage(el) THEN "accept"
    ELSE IF MatchesDisplayNone(el.style) THEN "reject"
    ELSE IF HeaderMarked(el) /\ ~el.isImg THEN "reject"
    ELSE "ascend"

\* what meetsCriteria decides on the element itself, before it recurses
OwnVerdict(el) ==
    IF MatchesDisplayNone(el.style) THEN "reject"
    ELSE IF IsLogoImage(el) THEN "accept"
    ELSE IF HeaderMarked(el) /\ ~el.isImg THEN "reject"
    ELSE "ascend"

\* meetsCriteria(element): chain is the element followed by its ancestors
RECURSIVE MeetsCriteria(_)
MeetsCriteria(chain) ==
    LET verdict == OwnVerdict(chain[1])
    IN IF verdict = "reject" THEN FALSE
       ELSE IF verdict = "accept" THEN TRUE
       ELSE IF Len(chain) > 1 THEN MeetsCriteria(Tail(chain))
       ELSE TRUE

Styles == {<< >>, <<"display:", "none">>, <<"x", "display:", "ws", "ws", "none", "x">>,
           <<"display:", "x", "none">>}
Marks == {[id |-> << >>, classes |-> {}],
          [id |-> <<"site-", "Header">>, classes |-> {}],
          [id |-> <<"main">>, classes |-> {<<"page">>, <<"top-", "HEADER">>}]}
Srcs == {<< >>, <<"photo", ".png">>, <<"Logo", ".png">>, <<"icon", ".svg">>, <<"icon", ".SVG">>}
Alts == {<< >>, <<"site ", "LOGO">>}

ImgNodes ==
    {[isImg |-> TRUE, style |-> st, id |-> m.id, classes |-> m.classes, src |-> sr, alt |-> al] :
        st \in Styles, m \in Marks, sr \in Srcs, al \in Alts}
ContainerNodes ==
    {[isImg |-> FALSE, style |-> st, id |-> m.id, classes |-> m.classes,
      src |-> << >>, alt |-> << >>] : st \in Styles, m \in Marks}
ImgChains == {<<img>> \o anc : img \in ImgNodes, anc \in SeqsUpTo(ContainerNodes, MaxDepth)}

(* ---- one call ---- *)

InitScrape ==
    /\ scPc = "idle"
    /\ scFn = "none"
    /\ scIn = [none |-> TRUE]
    /\ scOut = [none |-> TRUE]

\* getTitle(doc, url) on any document
CallGetTitle ==
    /\ scPc = "idle"
    /\ \E doc \in TitleDocs :
          /\ scIn' = [doc |-> doc, url |-> PageURL]
          /\ scOut' = [title |-> GetTitle(doc, PageURL)]
    /\ scPc' = "returned"
    /\ scFn' = "getTitle"
    /\ UNCHANGED nonScrapeVars

\* meetsCriteria(img) on any image element
CallMeetsCriteria ==
    /\ scPc = "idle"
    /\ \E chain \in ImgChains :
          /\ scIn' = [element |-> chain]
          /\ scOut' = [visible |-> MeetsCriteria(chain)]
    /\ scPc' = "returned"
    /\ scFn' = "meetsCriteria"
    /\ UNCHANGED nonScrapeVars

\* parser.process(rawData), for every parser class and every body
CallProcess ==
    /\ scPc = "idle"
    /\ \E variant \in RemoteVariants \cup {"local"} :
          \E data \in InputsOf(variant) :
             /\ scFn' = variant
             /\ scIn' = [data |-> data]
             /\ scOut' = Process(variant, data)
    /\ scPc' = "returned"
    /\ UNCHANGED nonScrapeVars

NextScrape ==
    \/ CallGetTitle
    \/ CallMeetsCriteria
    \/ CallProcess

(* ======================= LocalParser.parse ======================= *)

\* hrefs are absolute URLs (scheme, host, path), paths relative to the page,
\* or text that new URL() rejects; NoElement stands for a missing element
NoElement == <<"(no element)">>
InvalidHref == <<"http://[">>
FaviconIcoPath == <<"/favicon.ico">>
CdnIcon == <<"https://", "cdn", "/icon.png">>
CdnImage == <<"https://", "cdn", "/og.png">>
DefaultFaviconDataUri == <<"data:image/png;base64,iVBORw0KGgo">>

\* the href of the document's base element, when it declares one
CdnBase == <<"https://", "static", "/">>
DeclaredBases == {NoElement, CdnBase}

\* const base = url.href (the document's base element is not read)
BaseOf(dom, url) == url.href

\* new URL(href, base).href
Resolve(href, base) ==
    IF href[1] = "https://" THEN href ELSE <<base[1], base[2]>> \o href

\* what the task handed to the limiter can yield: null (a caught failure),
\* '' or HTML text
FetchOutcomes == {"null", "empty", "html"}

\* (await LocalParser.limiter?.enqueue(task)) || null
OrNull(limiterReady, out) ==
    IF limiterReady /\ out = "html" THEN "html" ELSE "null"

\* parse never tests what the fetches returned
IsFalsy_unchecked(html) == FALSE

\* !html, and the left operand of ||
IsFalsy(html) == html \in {"null", "empty"}

(* ---- candidates: what a scraping method may hand to verifyImageUrl ---- *)

FaviconSelectors == <<"icon", "shortcut icon", "apple-touch-icon",
                      "apple-touch-icon-precomposed">>
LinkHrefs == {NoElement, << >>, InvalidHref, FaviconIcoPath, CdnIcon}
FaviconDoms == [Range(FaviconSelectors) -> LinkHrefs]

\* the /favicon.ico fallback is left out
FaviconCandidates_noDefault(links) ==
    [i \in 1..Len(FaviconSelectors) |-> [href |-> links[FaviconSelectors[i]], visible |-> TRUE]]

\* getFavicon's candidates in the order it tries them: the link elements of
\* the four selectors, then /favicon.ico
FaviconCandidates(links) ==
    [i \in 1..Len(FaviconSelectors) |-> [href |-> links[FaviconSelectors[i]], visible |-> TRUE]]
    \o <<[href |-> FaviconIcoPath, visible |-> TRUE]>>

ImageSelectors ==
    <<[region |-> "product", noscript |-> TRUE], [region |-> "product", noscript |-> FALSE],
      [region |-> "mainId", noscript |-> TRUE], [region |-> "mainId", noscript |-> FALSE],
      [region |-> "mainTag", noscript |-> TRUE], [region |-> "mainTag", noscript |-> FALSE],
      [region |-> "roleMain", noscript |-> FALSE],
      [region |-> "body", noscript |-> TRUE], [region |-> "body", noscript |-> FALSE]>>

\* img matches the selector: it lies in the selector's region (every img lies
\* in body) and, for a "noscript img" selector, inside a noscript element
Matches(sel, img) ==
    /\ sel.region = "body" \/ sel.region = img.region
    /\ sel.noscript => img.noscript

\* the img elements a page may hold: where they sit and what they look like
HeaderDiv == [isImg |-> FALSE, style |-> << >>, id |-> <<"site-", "Header">>, classes |-> {},
              src |-> << >>, alt |-> << >>]
PlainImg(src) ==
    [isImg |-> TRUE, style |-> << >>, id |-> << >>, classes |-> {}, src |-> src, alt |-> << >>]
PageImgs ==
    {[region |-> "body", noscript |-> FALSE, chain |-> <<PlainImg(<<"/photo", ".png">>)>>],
     [region |-> "body", noscript |-> TRUE, chain |-> <<PlainImg(<<"/lazy", ".png">>)>>],
     [region |-> "mainId", noscript |-> FALSE, chain |-> <<PlainImg(<<"/hero", ".png">>)>>],
     [region |-> "mainId", noscript |-> TRUE, chain |-> <<PlainImg(<<"/photo", ".png">>)>>],
     [region |-> "body", noscript |-> FALSE,
      chain |-> <<PlainImg(<<"/banner", ".png">>), HeaderDiv>>],
     [region |-> "mainId", noscript |-> FALSE, chain |-> <<PlainImg(<< >>)>>]}
OgContents == {NoElement, << >>, InvalidHref, <<"/photo", ".png">>, CdnImage, CdnIcon}
ImageDoms ==
    {[og |-> og, imgs |-> imgs, base |-> base] :
        og \in OgContents, imgs \in SeqsUpTo(PageImgs, MaxImgs), base \in DeclaredBases}

ImgCandidate(img) == [href |-> img.chain[1].src, visible |-> MeetsCriteria(img.chain)]
SelectedBy(sel, imgs) ==
    LET match(img) == Matches(sel, img)
        picked == SelectSeq(imgs, match)
    IN [i \in 1..Len(picked) |-> ImgCandidate(picked[i])]

RECURSIVE SelectorsFrom(_, _)
SelectorsFrom(i, imgs) ==
    IF i > Len(ImageSelectors) THEN << >>
    ELSE SelectedBy(ImageSelectors[i], imgs) \o SelectorsFrom(i + 1, imgs)

\* getImage's candidates in the order it tries them: og:image, then for each
\* selector the matching img elements in document order
ImageCandidates(dom) ==
    <<[href |-> dom.og, visible |-> TRUE]>> \o SelectorsFrom(1, dom.imgs)

\* verifyImageUrl without its failedUrls test
Verifiable_retriesFailed(c, failed, base) ==
    /\ c.visible
    /\ c.href \notin {NoElement, << >>, InvalidHref}

\* the candidate reaches getImageDimensions: the element exists and meets the
\* criteria, its href / src / content is not empty, new URL() accepts it and
\* the resolved URL is not in failedUrls
Verifiable(c, failed, base) ==
    /\ c.visible
    /\ c.href \notin {NoElement, << >>, InvalidHref}
    /\ Resolve(c.href, base) \notin failed

\* the loops up to the next await of a load: the index of the next candidate
\* that is verified, Len(cands) + 1 when there is none
RECURSIVE NextCandidate(_, _, _, _)
NextCandidate(cands, from, failed, base) ==
    IF from > Len(cands) THEN from
    ELSE IF Verifiable(cands[from], failed, base) THEN from
    ELSE NextCandidate(cands, from + 1, failed, base)

(* ---- getDescription ---- *)

\* the head of a page: its og:title metas and titles, its og:description and
\* description metas
HeadDoms ==
    {[metas |-> << >>, titles |-> << >>, ogDescription |-> NoElement,
      description |-> <<"a", "nl">>],
     [metas |-> <<[where |-> "head", content |-> <<"a", "bs">>]>>, titles |-> << >>,
      ogDescription |-> <<"bs">>, description |-> NoElement]}

\* og:description content, else meta[name=description] content, else ''
GetDescription(dom) ==
    IF dom.ogDescription # NoElement THEN dom.ogDescription
    ELSE IF dom.description # NoElement THEN dom.description
    ELSE << >>

(* ---- the call ---- *)

NoScraped == [title |-> << >>, description |-> << >>, favicon |-> << >>, image |-> << >>]
NoLocalResult == [ok |-> FALSE, error |-> "none"]
NoDom == [none |-> TRUE]

InitLocal ==
    /\ lpPc = "idle"
    /\ lpSteps = << >>
    /\ lpHtml = [electron |-> "notTried", request |-> "notTried"]
    /\ lpDom = NoDom
    /\ lpIdx = 0
    /\ lpFailedUrls = {}
    /\ lpTried = << >>
    /\ lpLoaded = {}
    /\ lpScraped = NoScraped
    /\ lpResult = NoLocalResult
    /\ lpThrown = "none"

\* throw new Error(`Failed to fetch HTML content from ${url}`)
RejectFetch(html, steps) ==
    /\ lpPc' = "rejected"
    /\ lpThrown' = "FetchFailure"
    /\ lpHtml' = html
    /\ lpSteps' = steps
    /\ UNCHANGED <<lpDom, lpIdx, lpFailedUrls, lpTried, lpLoaded, lpScraped, lpResult>>

\* a scraping method (getFavicon, getImage) runs from candidate `from` to its
\* next await of a load, or returns `fallback` when no candidate is left;
\* once getFavicon has returned, its links are read no more (the document's
\* base element stays)
RunCandidates(stage, dom, cands, from, failed, fallback, scraped) ==
    LET i == NextCandidate(cands, from, failed, BaseOf(dom, PageURL))
    IN /\ lpFailedUrls' = failed
       /\ IF i <= Len(cands)
          THEN /\ lpPc' = stage
               /\ lpIdx' = i
               /\ lpDom' = dom
               /\ lpScraped' = scraped
          ELSE /\ lpPc' = stage \o "Returned"
               /\ lpIdx' = 0
               /\ lpDom' = IF stage = "favicon" THEN [base |-> dom.base] ELSE dom
               /\ lpScraped' = [scraped EXCEPT ![stage] = fallback]

\* HTML arrived: DOMParser, getTitle, getDescription, then getFavicon up to
\* its first await
StartScraping(html, steps) ==
    \E head \in HeadDoms, links \in FaviconDoms, base \in DeclaredBases :
        /\ lpHtml' = html
        /\ lpSteps' = steps \o <<"getTitle", "getDescription", "getFavicon">>
        /\ lpTried' = << >>
        /\ lpLoaded' = {}
        /\ RunCandidates("favicon", [links |-> links, base |-> base],
                         FaviconCandidates(links), 1, {},
                         DefaultFaviconDataUri,
                         [NoScraped EXCEPT !.title = GetTitle(head, PageURL),
                                           !.description = GetDescription(head)])
        /\ UNCHANGED <<lpResult, lpThrown>>

\* getHtmlByRequest has returned
RequestReturned(html, steps) ==
    IF IsFalsy(html.request)
    THEN RejectFetch(html, steps)
    ELSE StartScraping(html, steps)

\* parse(url): getHtmlByElectron is called; without a limiter both fetches
\* return null without a task being run
LocalParse(limiterReady) ==
    /\ lpPc = "idle"
    /\ IF limiterReady
       THEN /\ lpPc' = "electron"
            /\ lpSteps' = <<"getHtmlByElectron">>
            /\ UNCHANGED <<lpHtml, lpDom, lpIdx, lpFailedUrls, lpTried, lpLoaded, lpScraped,
                           lpResult, lpThrown>>
       ELSE LET html == [electron |-> OrNull(FALSE, "null"), request |-> "notTried"]
            IN IF IsFalsy(html.electron)
               THEN RequestReturned([html EXCEPT !.request = OrNull(FALSE, "null")],
                                    <<"getHtmlByElectron", "getHtmlByRequest">>)
               ELSE StartScraping(html, <<"getHtmlByElectron">>)
    /\ UNCHANGED nonLocalVars

\* the render task settles (its failures are caught and yield null)
ElectronSettles(out) ==
    /\ lpPc = "electron"
    /\ LET html == [lpHtml EXCEPT !.electron = OrNull(TRUE, out)]
       IN IF IsFalsy(html.electron)
          THEN /\ lpPc' = "request"
               /\ lpHtml' = html
               /\ lpSteps' = Append(lpSteps, "getHtmlByRequest")
               /\ UNCHANGED <<lpDom, lpIdx, lpFailedUrls, lpTried, lpLoaded, lpScraped, lpResult,
                              lpThrown>>
          ELSE StartScraping(html, lpSteps)
    /\ UNCHANGED nonLocalVars

\* the request task settles (its failures are caught and yield null)
RequestSettles(out) ==
    /\ lpPc = "request"
    /\ RequestReturned([lpHtml EXCEPT !.request = OrNull(TRUE, out)], lpSteps)
    /\ UNCHANGED nonLocalVars

\* the awaited verifyImageUrl settles: the URL on a load, null (and the URL
\* added to failedUrls) on a load failure
Verified(stage, cands, fallback, ok) ==
    LET url == Resolve(cands[lpIdx].href, BaseOf(lpDom, PageURL))
    IN /\ lpTried' = Append(lpTried, [url |-> url, ok |-> ok])
       /\ lpLoaded' = lpLoaded \cup {url}
       /\ IF ok
          THEN /\ lpPc' = stage \o "Returned"
               /\ lpIdx' = 0
               /\ lpDom' = IF stage = "favicon" THEN [base |-> lpDom.base] ELSE lpDom
               /\ lpScraped' = [lpScraped EXCEPT ![stage] = url]
               /\ UNCHANGED lpFailedUrls
          ELSE RunCandidates(stage, lpDom, cands, lpIdx + 1, lpFailedUrls \cup {url},
                             fallback, lpScraped)
       /\ UNCHANGED <<lpSteps, lpHtml, lpResult, lpThrown>>

FaviconVerified(ok) ==
    /\ lpPc = "favicon"
    /\ Verified("favicon", FaviconCandidates(lpDom.links), DefaultFaviconDataUri, ok)
    /\ UNCHANGED nonLocalVars

\* parse resumes after await getFavicon: getImage up to its first await
GetImage ==
    /\ lpPc = "faviconReturned"
    /\ \E dom \in {d \in ImageDoms : d.base = lpDom.base} :
          RunCandidates("image", dom, ImageCandidates(dom), 1, {}, << >>, lpScraped)
    /\ lpTried' = << >>
    /\ lpSteps' = Append(lpSteps, "getImage")
    /\ UNCHANGED <<lpHtml, lpLoaded, lpResult, lpThrown>>
    /\ UNCHANGED nonLocalVars

ImageVerified(ok) ==
    /\ lpPc = "image"
    /\ Verified("image", ImageCandidates(lpDom), << >>, ok)
    /\ UNCHANGED nonLocalVars

\* parse resumes after await getImage: process, then handleImageProcessing
ProcessScraped ==
    /\ lpPc = "imageReturned"
    /\ lpPc' = "enrich"
    /\ lpResult' = LocalProcess(lpScraped)
    /\ lpSteps' = lpSteps \o <<"process", "handleImageProcessing">>
    /\ lpDom' = NoDom
    /\ lpTried' = << >>
    /\ lpFailedUrls' = {}
    /\ UNCHANGED <<lpHtml, lpIdx, lpLoaded, lpScraped, lpThrown>>
    /\ UNCHANGED nonLocalVars

\* handleImageProcessing resolves (it never rejects): parse returns its result
LocalEnrichSettles ==
    /\ lpPc = "enrich"
    /\ lpPc' = "returned"
    /\ UNCHANGED <<lpSteps, lpHtml, lpDom, lpIdx, lpFailedUrls, lpTried, lpLoaded, lpScraped,
                   lpResult, lpThrown>>
    /\ UNCHANGED nonLocalVars

NextLocal ==
    \/ \E ready \in BOOLEAN : LocalParse(ready)
    \/ \E out \in FetchOutcomes : ElectronSettles(out)
    \/ \E out \in FetchOutcomes : RequestSettles(out)
    \/ \E ok \in BOOLEAN : FaviconVerified(ok)
    \/ GetImage
    \/ \E ok \in BOOLEAN : ImageVerified(ok)
    \/ ProcessScraped
    \/ LocalEnrichSettles

(* ============ page fetches through LocalParser.limiter ============ *)

FetchKinds == {"render", "request"}
Fetching == {"loading", "evaluating", "requesting"}

InitFetch ==
    /\ fetchKind = [t \in Tasks |-> "none"]
    /\ fetchPc = [t \in Tasks |-> "none"]
    /\ window = [t \in Tasks |-> "none"]
    /\ loweredBusy = FALSE

\* only the render is handed to LocalParser.limiter
EnqueuedOn_renderOnly(kind) ==
    IF kind = "render" THEN "LocalParser.limiter" ELSE "none"

\* getHtmlByElectron and getHtmlByRequest both hand their task to the static
\* LocalParser.limiter, whichever instance is called
EnqueuedOn(kind) == "LocalParser.limiter"

\* the catch block leaves the window as it is
CloseInCatch_leavesOpen(w) == w

\* catch (ex) { if (window) window.close(); }
CloseInCatch(w) == IF w = "open" THEN "closed" ELSE w

\* LocalParser.initLimiter(m) on the existing limiter: setMaxConcurrency(m)
CallInitLimiter(m) ==
    /\ LimiterSetMaxConcurrency(m)
    /\ loweredBusy' = (loweredBusy \/ (m < maxConcurrency /\ runningTasks > 0))
    /\ UNCHANGED <<fetchKind, fetchPc, window>>
    /\ UNCHANGED nonLimiterFetchVars

\* some LocalParser instance (a parse or a favicon lookup) calls
\* getHtmlByElectron / getHtmlByRequest: the task is enqueued
GetHtml(kind) ==
    /\ nextId < MaxFetches
    /\ fetchKind' = [fetchKind EXCEPT ![nextId + 1] = kind]
    /\ IF EnqueuedOn(kind) = "LocalParser.limiter"
       THEN LimiterEnqueue
       ELSE /\ nextId' = nextId + 1
            /\ taskState' = [taskState EXCEPT ![nextId + 1] = "admitted"]
            /\ microtasks' = Append(microtasks, [kind |-> "start", t |-> nextId + 1])
            /\ UNCHANGED <<queue, runningTasks, maxConcurrency, taskResult, promise,
                           settleCalls, startOrder, ceilingFixed>>
    /\ UNCHANGED <<fetchPc, window, loweredBusy>>
    /\ UNCHANGED nonLimiterFetchVars

\* the start microtask of a render runs: new BrowserWindow(...), loadURL(url),
\* and the body waits for did-finish-load / did-fail-load
RenderStarts ==
    /\ LimiterStartTask
    /\ LET t == Head(microtasks).t
       IN /\ fetchKind[t] = "render"
          /\ fetchPc' = [fetchPc EXCEPT ![t] = "loading"]
          /\ window' = [window EXCEPT ![t] = "open"]
    /\ UNCHANGED <<fetchKind, loweredBusy>>
    /\ UNCHANGED nonLimiterFetchVars

\* the start microtask of a render runs and electron's remote or the
\* BrowserWindow constructor throws: the catch block finds no window and the
\* body returns null in the same turn
RenderStartThrows ==
    /\ Len(microtasks) > 0
    /\ Head(microtasks).kind = "start"
    /\ LET t == Head(microtasks).t
       IN /\ fetchKind[t] = "render"
          /\ fetchPc' = [fetchPc EXCEPT ![t] = "noWindow"]
          /\ window' = [window EXCEPT ![t] = CloseInCatch(window[t])]
          /\ taskState' = [taskState EXCEPT ![t] = "settled"]
          /\ taskResult' = [taskResult EXCEPT ![t] = [kind |-> "value", of |-> t]]
          /\ startOrder' = Append(startOrder, t)
          /\ microtasks' = Append(Tail(microtasks), [kind |-> "cont", t |-> t])
    /\ UNCHANGED <<queue, runningTasks, maxConcurrency, promise, settleCalls, nextId,
                   ceilingFixed>>
    /\ UNCHANGED <<fetchKind, loweredBusy>>
    /\ UNCHANGED nonLimiterFetchVars

\* did-finish-load: executeJavaScript is awaited; did-fail-load: the catch
\* block closes the window and the body returns null
RenderLoadSettles(t, loaded) ==
    /\ fetchPc[t] = "loading"
    /\ IF loaded
       THEN /\ fetchPc' = [fetchPc EXCEPT ![t] = "evaluating"]
            /\ UNCHANGED <<limiterVars, window>>
       ELSE /\ fetchPc' = [fetchPc EXCEPT ![t] = "loadFailed"]
            /\ window' = [window EXCEPT ![t] = CloseInCatch(window[t])]
            /\ LimiterTaskSettle(t, "value")
    /\ UNCHANGED <<fetchKind, loweredBusy>>
    /\ UNCHANGED nonLimiterFetchVars

\* executeJavaScript settles: window.close() and return doc, or the catch
\* block closes the window and the body returns null
RenderScriptSettles(t, evaluated) ==
    /\ fetchPc[t] = "evaluating"
    /\ IF evaluated
       THEN /\ fetchPc' = [fetchPc EXCEPT ![t] = "rendered"]
            /\ window' = [window EXCEPT ![t] = "closed"]
       ELSE /\ fetchPc' = [fetchPc EXCEPT ![t] = "scriptFailed"]
            /\ window' = [window EXCEPT ![t] = CloseInCatch(window[t])]
    /\ LimiterTaskSettle(t, "value")
    /\ UNCHANGED <<fetchKind, loweredBusy>>
    /\ UNCHANGED nonLimiterFetchVars

\* the start microtask of a request runs: requestUrl({ url }) is awaited
HttpRequestStarts ==
    /\ LimiterStartTask
    /\ LET t == Head(microtasks).t
       IN /\ fetchKind[t] = "request"
          /\ fetchPc' = [fetchPc EXCEPT ![t] = "requesting"]
    /\ UNCHANGED <<fetchKind, window, loweredBusy>>
    /\ UNCHANGED nonLimiterFetchVars

\* requestUrl settles: return response.text, or catch and return null
HttpRequestSettles(t, ok) ==
    /\ fetchPc[t] = "requesting"
    /\ fetchPc' = [fetchPc EXCEPT ![t] = IF ok THEN "fetched" ELSE "requestFailed"]
    /\ LimiterTaskSettle(t, "value")
    /\ UNCHANGED <<fetchKind, window, loweredBusy>>
    /\ UNCHANGED nonLimiterFetchVars

\* the limiter's continuation: resolve(result), finally
FetchCompletes ==
    /\ LimiterCompleteTask
    /\ UNCHANGED fetchVars
    /\ UNCHANGED nonLimiterFetchVars

NextFetch ==
    \/ \E m \in 1..MaxCeiling : CallInitLimiter(m)
    \/ \E kind \in FetchKinds : GetHtml(kind)
    \/ RenderStarts
    \/ RenderStartThrows
    \/ \E t \in Tasks, loaded \in BOOLEAN : RenderLoadSettles(t, loaded)
    \/ \E t \in Tasks, evaluated \in BOOLEAN : RenderScriptSettles(t, evaluated)
    \/ HttpRequestStarts
    \/ \E t \in Tasks, ok \in BOOLEAN : HttpRequestSettles(t, ok)
    \/ FetchCompletes

(* ======================= specifications ======================= *)

(* ============ one page scraped again (LocalParser.parse) ============ *)

\* the pages scraped: their link elements, og:image and img elements
RescrapeLinks ==
    {l \in FaviconDoms : /\ l["shortcut icon"] = NoElement
                         /\ l["apple-touch-icon"] \in {NoElement, CdnIcon}
                         /\ l["apple-touch-icon-precomposed"] = NoElement}
RescrapeImgs ==
    {[og |-> og, imgs |-> imgs] :
        og \in OgContents,
        imgs \in {<< >>,
                  <<[region |-> "body", noscript |-> FALSE,
                     chain |-> <<PlainImg(<<"/photo", ".png">>)>>]>>,
                  <<[region |-> "mainId", noscript |-> FALSE,
                     chain |-> <<PlainImg(<<"/hero", ".png">>)>>]>>}}
\* every URL a candidate of these pages resolves to
CandidateUrls ==
    {Resolve(h, PageURL.href) :
        h \in {FaviconIcoPath, CdnIcon, CdnImage, <<"/photo", ".png">>, <<"/hero", ".png">>}}

\* no page is being scraped
NoRescrape ==
    /\ rsDoc = NoDom
    /\ rsLoads = {}
    /\ rsUseCache = FALSE
    /\ rsCache = {}
    /\ rsAttempts = [u \in CandidateUrls |-> 0]
    /\ rsResults = << >>
    /\ rsAtCeiling = << >>

\* the plugin has just been loaded (cache and imageLoadAttempts are new Maps);
\* the page, the load outcome of every URL and the setting are any
InitRescrape ==
    /\ rsDoc \in {[head |-> head, links |-> links, dom |-> dom] :
                     head \in HeadDoms, links \in RescrapeLinks, dom \in RescrapeImgs}
    /\ rsLoads \in SUBSET CandidateUrls
    /\ rsUseCache \in BOOLEAN
    /\ rsCache = {}
    /\ rsAttempts = [u \in CandidateUrls |-> 0]
    /\ rsResults = << >>
    /\ rsAtCeiling = << >>

\* getImageDimensions(url, cache, imageLoadAttempts) for a URL whose load
\* succeeds or fails as `loads` says; passed.cache and passed.attempts tell
\* which of the two maps the caller hands over. Yields whether the promise
\* resolves to dimensions (else it rejects) and the maps as the call leaves them
LoadDimensions(url, passed, st, loads) ==
    LET attempts == IF passed.attempts THEN st.attempts[url] ELSE 0
        cached == IF passed.cache THEN st.cache \cup {url} ELSE st.cache
    IN IF passed.cache /\ url \in st.cache
       THEN [resolved |-> TRUE, st |-> st]
       ELSE IF attempts >= MAX_LOAD_ATTEMPTS
       THEN [resolved |-> TRUE, st |-> [st EXCEPT !.cache = cached]]
       ELSE IF loads
       THEN [resolved |-> TRUE,
             st |-> [cache |-> cached,
                     attempts |-> IF passed.attempts /\ attempts > 0
                                  THEN [st.attempts EXCEPT ![url] = 0]
                                  ELSE st.attempts]]
       ELSE [resolved |-> attempts + 1 >= MAX_LOAD_ATTEMPTS,
             st |-> [cache |-> IF attempts + 1 >= MAX_LOAD_ATTEMPTS THEN cached ELSE st.cache,
                     attempts |-> IF passed.attempts
                                  THEN [st.attempts EXCEPT ![url] = attempts + 1]
                                  ELSE st.attempts]]

\* verification is handed the plugin's cache and imageLoadAttempts
VerifyMaps_pluginMaps == [cache |-> TRUE, attempts |-> TRUE]

\* verification is handed the plugin's cache
VerifyMaps_pluginCache == [cache |-> TRUE, attempts |-> FALSE]

\* verifyImageUrl: getImageDimensions(imgUrl), with neither map
VerifyMaps == [cache |-> FALSE, attempts |-> FALSE]

\* handleImageProcessing: getImageDimensions(result.image, cache), cache being
\* plugin.cache if settings.useCache and null otherwise
AspectMaps(useCache) == [cache |-> useCache, attempts |-> FALSE]

\* a scraping method (getFavicon, getImage) from candidate `from` on, with its
\* failedUrls: the first candidate that verifyImageUrl accepts, else `fallback`
RECURSIVE FirstVerified(_, _, _, _, _, _)
FirstVerified(cands, from, failed, fallback, st, loads) ==
    LET i == NextCandidate(cands, from, failed, PageURL.href)
    IN IF i > Len(cands)
       THEN [value |-> fallback, st |-> st]
       ELSE LET url == Resolve(cands[i].href, PageURL.href)
                d == LoadDimensions(url, VerifyMaps, st, url \in loads)
            IN IF d.resolved
               THEN [value |-> url, st |-> d.st]
               ELSE FirstVerified(cands, i + 1, failed \cup {url}, fallback, d.st, loads)

\* parse(url) once its HTML has arrived, run to its return: getTitle,
\* getDescription, getFavicon and getImage (each with a new failedUrls),
\* process, then handleImageProcessing, whose vault stage is skipped (the
\* parser was created by tryParsers, without a vault) and whose aspect-ratio
\* stage measures result.image
ScrapeAgain ==
    /\ Len(rsResults) < MaxRuns
    /\ LET favicon == FirstVerified(FaviconCandidates(rsDoc.links), 1, {},
                                    DefaultFaviconDataUri,
                                    [cache |-> rsCache, attempts |-> rsAttempts], rsLoads)
           image == FirstVerified(ImageCandidates(rsDoc.dom), 1, {}, << >>,
                                  favicon.st, rsLoads)
           result == LocalProcess([title |-> GetTitle(rsDoc.head, PageURL),
                                   description |-> GetDescription(rsDoc.head),
                                   favicon |-> favicon.value,
                                   image |-> image.value])
           left == IF result.image # << >>
                   THEN LoadDimensions(result.image, AspectMaps(rsUseCache), image.st,
                                       result.image \in rsLoads).st
                   ELSE image.st
       IN /\ rsResults' = Append(rsResults, result)
          /\ rsAtCeiling' = Append(rsAtCeiling,
                                   {u \in CandidateUrls : rsAttempts[u] >= MAX_LOAD_ATTEMPTS})
          /\ rsCache' = left.cache
          /\ rsAttempts' = left.attempts
    /\ UNCHANGED <<rsDoc, rsLoads, rsUseCache>>
    /\ UNCHANGED <<limiterVars, imageVars, enrichVars, tryVars, scrapeVars, localVars, fetchVars,
                   faviconVars, parseFetchVars, embedVars>>

NextRescrape == ScrapeAgain

\* the note holds an embed block written from the page's og:image
RenderedImage == Resolve(CdnImage, PageURL.href)

\* handleEmbedCodeBlock renders that block: unless the cache is used and has
\* the image, getImageDimensions(info.image, settings.useCache ? cache : null,
\* imageLoadAttempts), and .then stores the dimensions if the cache is used
RenderEmbedImage ==
    /\ rsDoc # NoDom
    /\ LET left == LoadDimensions(RenderedImage, [cache |-> rsUseCache, attempts |-> TRUE],
                                  [cache |-> rsCache, attempts |-> rsAttempts],
                                  RenderedImage \in rsLoads).st
       IN /\ rsCache' = left.cache
          /\ rsAttempts' = left.attempts
    /\ UNCHANGED <<rsDoc, rsLoads, rsUseCache, rsResults, rsAtCeiling>>
    /\ UNCHANGED <<limiterVars, imageVars, enrichVars, tryVars, scrapeVars, localVars, fetchVars,
                   faviconVars, parseFetchVars, embedVars>>

NextRendered ==
    \/ ScrapeAgain
    \/ RenderEmbedImage

(* ========= the callers of the page fetch for one page URL ========= *)

FvIds == 1..MaxLookups
\* LocalParser.parse; getFavicon called and awaited (eventHandlers); the favicon
\* branch of handleEmbedCodeBlock
CallKinds == {"parse", "lookup", "render"}
NoCall == [kind |-> "none", pc |-> "none", result |-> "none", opened |-> FALSE,
           requested |-> FALSE, waitsOn |-> 0]
NoEntry == [kind |-> "none", of |-> 0]

InitFavicon ==
    /\ fvLimiter = FALSE
    /\ fvCache = NoEntry
    /\ fvCalls = [c \in FvIds |-> NoCall]
    /\ fvReads = {}

\* the task is run although there is no limiter
Enqueued_withoutLimiter(limiterReady) == TRUE

\* LocalParser.limiter?.enqueue(task): without a limiter nothing is enqueued
\* and the task (the window, the request) is never run
Enqueued(limiterReady) == limiterReady

\* the promise returned by localParser.getFavicon(doc, urlObj) in call d is
\* still pending
FaviconPending(d) == fvCalls[d].pc = "verifying"

\* LocalParser.initLimiter(maxConcurrency)
CreateLimiter ==
    /\ ~fvLimiter
    /\ fvLimiter' = TRUE
    /\ UNCHANGED <<fvCache, fvCalls, fvReads>>
    /\ UNCHANGED nonFaviconVars

\* a call begins. handleEmbedCodeBlock takes a cached value as the favicon;
\* getFavicon returns the cached value (a promise returned from an async
\* function is adopted); on a miss, and in parse, getHtmlByElectron is awaited
StartCall(c, kind, useCache) ==
    /\ fvCalls[c].kind = "none"
    /\ \A d \in FvIds : d < c => fvCalls[d].kind # "none"
    /\ IF kind # "parse" /\ useCache /\ fvCache.kind # "none"
       THEN IF kind = "render"
            THEN /\ fvReads' = fvReads \cup {fvCache.kind}
                 /\ fvCalls' = [fvCalls EXCEPT ![c] =
                       [NoCall EXCEPT !.kind = kind, !.pc = "done", !.result = fvCache.kind]]
            ELSE /\ fvCalls' = [fvCalls EXCEPT ![c] =
                       IF fvCache.kind = "promise" /\ FaviconPending(fvCache.of)
                       THEN [NoCall EXCEPT !.kind = kind, !.pc = "adopting",
                                           !.waitsOn = fvCache.of]
                       ELSE [NoCall EXCEPT !.kind = kind, !.pc = "done", !.result = "string"]]
                 /\ UNCHANGED fvReads
       ELSE /\ fvCalls' = [fvCalls EXCEPT ![c] = [NoCall EXCEPT !.kind = kind, !.pc = "electron"]]
            /\ UNCHANGED fvReads
    /\ UNCHANGED <<fvLimiter, fvCache>>
    /\ UNCHANGED nonFaviconVars

\* HTML has arrived. parse goes on to scrape it; getFavicon calls
\* localParser.getFavicon(doc, urlObj) without awaiting it and, with useCache,
\* stores what it got, the promise, in the cache before returning it
GotHtml(c, call, useCache) ==
    IF call.kind = "parse"
    THEN /\ fvCalls' = [fvCalls EXCEPT ![c] = [call EXCEPT !.pc = "scraping"]]
         /\ UNCHANGED fvCache
    ELSE /\ fvCalls' = [fvCalls EXCEPT ![c] = [call EXCEPT !.pc = "verifying"]]
         /\ fvCache' = IF useCache THEN [kind |-> "promise", of |-> c] ELSE fvCache

\* await getHtmlByElectron(url) returns
ElectronReturns(c, out, useCache) ==
    /\ fvCalls[c].pc = "electron"
    /\ LET ran == Enqueued(fvLimiter)
           call == [fvCalls[c] EXCEPT !.opened = ran]
       IN IF IsFalsy(OrNull(ran, out))
          THEN /\ fvCalls' = [fvCalls EXCEPT ![c] = [call EXCEPT !.pc = "request"]]
               /\ UNCHANGED fvCache
          ELSE GotHtml(c, call, useCache)
    /\ UNCHANGED <<fvLimiter, fvReads>>
    /\ UNCHANGED nonFaviconVars

\* await getHtmlByRequest(url) returns: without HTML parse throws and
\* getFavicon returns ''
RequestReturns(c, out, useCache) ==
    /\ fvCalls[c].pc = "request"
    /\ LET ran == Enqueued(fvLimiter)
           call == [fvCalls[c] EXCEPT !.requested = ran]
       IN IF IsFalsy(OrNull(ran, out))
          THEN /\ fvCalls' = [fvCalls EXCEPT ![c] =
                     CASE call.kind = "parse" ->
                              [call EXCEPT !.pc = "rejected", !.result = "FetchFailure"]
                       [] call.kind = "lookup" -> [call EXCEPT !.pc = "done", !.result = "empty"]
                       [] call.kind = "render" -> [call EXCEPT !.pc = "then", !.result = "empty"]]
               /\ UNCHANGED fvCache
          ELSE GotHtml(c, call, useCache)
    /\ UNCHANGED <<fvLimiter, fvReads>>
    /\ UNCHANGED nonFaviconVars

\* LocalParser.getFavicon resolves (to a verified icon or the default data URI),
\* and with it the promise that getFavicon returned
FaviconResolves(c) ==
    /\ fvCalls[c].pc = "verifying"
    /\ fvCalls' = [fvCalls EXCEPT ![c] =
          [@ EXCEPT !.pc = IF fvCalls[c].kind = "render" THEN "then" ELSE "done",
                    !.result = "string"]]
    /\ UNCHANGED <<fvLimiter, fvCache, fvReads>>
    /\ UNCHANGED nonFaviconVars

\* a getFavicon call that returned the cached promise resolves with it
Adopted(c) ==
    /\ fvCalls[c].pc = "adopting"
    /\ ~FaviconPending(fvCalls[c].waitsOn)
    /\ fvCalls' = [fvCalls EXCEPT ![c] = [@ EXCEPT !.pc = "done", !.result = "string"]]
    /\ UNCHANGED <<fvLimiter, fvCache, fvReads>>
    /\ UNCHANGED nonFaviconVars

\* handleEmbedCodeBlock's .then((favicon) => ...): if (settings.useCache &&
\* favicon) cache.set(info.url, favicon)
RenderThen(c, useCache) ==
    /\ fvCalls[c].pc = "then"
    /\ fvCalls' = [fvCalls EXCEPT ![c] = [@ EXCEPT !.pc = "done"]]
    /\ fvCache' = IF useCache /\ fvCalls[c].result = "string"
                  THEN [kind |-> "string", of |-> 0] ELSE fvCache
    /\ UNCHANGED <<fvLimiter, fvReads>>
    /\ UNCHANGED nonFaviconVars

NextFavicon ==
    \/ CreateLimiter
    \/ \E c \in FvIds, kind \in CallKinds, useCache \in BOOLEAN : StartCall(c, kind, useCache)
    \/ \E c \in FvIds, out \in FetchOutcomes, useCache \in BOOLEAN :
          ElectronReturns(c, out, useCache)
    \/ \E c \in FvIds, out \in FetchOutcomes, useCache \in BOOLEAN :
          RequestReturns(c, out, useCache)
    \/ \E c \in FvIds : FaviconResolves(c)
    \/ \E c \in FvIds : Adopted(c)
    \/ \E c \in FvIds, useCache \in BOOLEAN : RenderThen(c, useCache)

(* ============ the placeholder in the editor (embedUrl) ============ *)

\* the notes embedUrl is called on, once a selection replaced in place has
\* been removed: characters typed by the user, "nl" ending a line
EditorDocs == {<< >>, <<"t">>, <<"t", "nl">>, <<"t", "nl", "t">>, <<"nl", "t">>}
Typed == {"t", "nl"}

\* Mustache.render(MarkdownTemplate, { title: 'Fetching', image: SPINNER, ... }) + '\n'
DummyEmbed == <<"fetchingFence", "nl", "fetchingBody", "nl">>
\* generateEmbedMarkdown(data, settings, selectedParser)
FinalEmbed == <<"embedFence", "nl", "embedBody", "nl">>

NoPos == [line |-> 0, ch |-> 0]

InitEmbed ==
    /\ euPc = "idle"
    /\ euDoc = << >>
    /\ euStart = NoPos
    /\ euEnd = NoPos
    /\ euParsed = FALSE
    /\ euOutcome = "none"
    /\ euUserEdits = 0

\* the editor's positions { line, ch } over the text
NewlinesIn(doc, n) == Cardinality({i \in 1..n : doc[i] = "nl"})
LastLine(doc) == NewlinesIn(doc, Len(doc))
LineStart(doc, l) ==
    IF l = 0 THEN 0 ELSE CHOOSE i \in 1..Len(doc) : doc[i] = "nl" /\ NewlinesIn(doc, i) = l
LineLength(doc, l) ==
    (IF l = LastLine(doc) THEN Len(doc) ELSE LineStart(doc, l + 1) - 1) - LineStart(doc, l)
\* a position outside the text is clipped to the nearest one inside it
ClipPos(doc, pos) ==
    IF pos.line > LastLine(doc)
    THEN [line |-> LastLine(doc), ch |-> LineLength(doc, LastLine(doc))]
    ELSE [line |-> pos.line,
          ch |-> IF pos.ch > LineLength(doc, pos.line) THEN LineLength(doc, pos.line)
                 ELSE pos.ch]
OffsetOf(doc, pos) == LineStart(doc, ClipPos(doc, pos).line) + ClipPos(doc, pos).ch
PosAt(doc, off) ==
    [line |-> NewlinesIn(doc, off), ch |-> off - LineStart(doc, NewlinesIn(doc, off))]
Positions(doc) == {PosAt(doc, off) : off \in 0..Len(doc)}

\* editor.getRange(from, to)
GetRange(doc, from, to) == SubSeq(doc, OffsetOf(doc, from) + 1, OffsetOf(doc, to))

\* editor.replaceRange(text, from, to)
ReplaceRange(doc, text, from, to) ==
    SubSeq(doc, 1, OffsetOf(doc, from)) \o text \o SubSeq(doc, OffsetOf(doc, to) + 1, Len(doc))

\* the final embed is written without looking at the range
DummyIntact_unchecked(doc, from, to) == TRUE

\* const dummy = editor.getRange(startCursor, endCursor); if (dummy == dummyEmbed)
DummyIntact(doc, from, to) == GetRange(doc, from, to) = DummyEmbed

\* embedUrl(editor, selected, selectedParsers, settings, inPlace) up to
\* await tryParsers: the cursor goes to the start of the next line if its line
\* has text, else stays; the placeholder is inserted there and the positions
\* before and after it are kept
EmbedUrl(doc, cursor) ==
    /\ euPc = "idle"
    /\ LET newLine == LineLength(doc, cursor.line) > 0
           start == ClipPos(doc, IF newLine THEN [line |-> cursor.line + 1, ch |-> 0]
                                 ELSE [line |-> cursor.line,
                                       ch |-> LineLength(doc, cursor.line)])
           inserted == ReplaceRange(doc, DummyEmbed, start, start)
       IN /\ euDoc' = inserted
          /\ euStart' = start
          /\ euEnd' = PosAt(inserted, OffsetOf(doc, start) + Len(DummyEmbed))
    /\ euPc' = "parsing"
    /\ UNCHANGED <<euParsed, euOutcome, euUserEdits>>
    /\ UNCHANGED nonEmbedVars

\* the user types a character at an offset of the text while the parse is in flight
UserTypes(off, c) ==
    /\ euPc \in {"parsing", "delay"}
    /\ euUserEdits < MaxEdits
    /\ off \in 0..Len(euDoc)
    /\ euDoc' = SubSeq(euDoc, 1, off) \o <<c>> \o SubSeq(euDoc, off + 1, Len(euDoc))
    /\ euUserEdits' = euUserEdits + 1
    /\ UNCHANGED <<euPc, euStart, euEnd, euParsed, euOutcome>>
    /\ UNCHANGED nonEmbedVars

\* the user deletes the character at an offset
UserDeletes(off) ==
    /\ euPc \in {"parsing", "delay"}
    /\ euUserEdits < MaxEdits
    /\ off \in 1..Len(euDoc)
    /\ euDoc' = SubSeq(euDoc, 1, off - 1) \o SubSeq(euDoc, off + 1, Len(euDoc))
    /\ euUserEdits' = euUserEdits + 1
    /\ UNCHANGED <<euPc, euStart, euEnd, euParsed, euOutcome>>
    /\ UNCHANGED nonEmbedVars

\* before replacing, check whether dummy is deleted or modified:
\* editor.replaceRange(embed, startCursor, endCursor), else the notice
CheckAndReplace ==
    /\ euPc' = "done"
    /\ IF DummyIntact(euDoc, euStart, euEnd)
       THEN /\ euDoc' = ReplaceRange(euDoc, FinalEmbed, euStart, euEnd)
            /\ euOutcome' = "replaced"
       ELSE /\ euDoc' = euDoc
            /\ euOutcome' = "cancelled"

\* await tryParsers(...) settles: a rejection goes to the catch block
\* (showNotice); after a result, settings.delay > 0 waits for the timer
ParsersSettle(ok, delayed) ==
    /\ euPc = "parsing"
    /\ euParsed' = ok
    /\ IF ~ok
       THEN /\ euPc' = "done"
            /\ euOutcome' = "failed"
            /\ UNCHANGED euDoc
       ELSE IF delayed
       THEN /\ euPc' = "delay"
            /\ UNCHANGED <<euDoc, euOutcome>>
       ELSE CheckAndReplace
    /\ UNCHANGED <<euStart, euEnd, euUserEdits>>
    /\ UNCHANGED nonEmbedVars

\* await new Promise((f) => setTimeout(f, settings.delay)) returns
DelayElapses ==
    /\ euPc = "delay"
    /\ CheckAndReplace
    /\ UNCHANGED <<euStart, euEnd, euParsed, euUserEdits>>
    /\ UNCHANGED nonEmbedVars

NextEmbed ==
    \/ \E doc \in EditorDocs : \E cursor \in Positions(doc) : EmbedUrl(doc, cursor)
    \/ \E off \in 0..Len(euDoc), c \in Typed : UserTypes(off, c)
    \/ \E off \in 1..Len(euDoc) : UserDeletes(off)
    \/ \E ok \in BOOLEAN, delayed \in BOOLEAN : ParsersSettle(ok, delayed)
    \/ DelayElapses

(* ====== concurrent parses fetching their page through the limiter ====== *)

Parses == 1..MaxLookups
Unfinished == {"queued", "admitted", "executing", "settled"}

InitParseFetch ==
    /\ pfPc = [p \in Parses |-> "idle"]
    /\ fetchOwner = [t \in Tasks |-> 0]

\* the fetch that parse p has enqueued last
FetchOf(p) == CHOOSE t \in Tasks :
                 /\ fetchOwner[t] = p
                 /\ \A u \in Tasks : fetchOwner[u] = p => u <= t

\* the fallback is enqueued as soon as the task body has returned
AwaitReturned_beforeRelease(t) == taskState[t] \in {"settled", "done"}

\* await LocalParser.limiter.enqueue(task) returns once the promise of the
\* entry has settled; the limiter's finally block has run by then
AwaitReturned(t) == promise[t].state # "pending"

\* what the settled fetch yields: the rendered document or the response text
\* (which may be ''), or null after a failure caught in the task
YieldOf(t) == IF fetchPc[t] \in {"rendered", "fetched"} THEN {"html", "empty"} ELSE {"null"}

\* getHtmlByElectron / getHtmlByRequest called by parse p: the task is enqueued
EnqueueFetch(p, kind) ==
    /\ LimiterEnqueue
    /\ fetchKind' = [fetchKind EXCEPT ![nextId + 1] = kind]
    /\ fetchOwner' = [fetchOwner EXCEPT ![nextId + 1] = p]
    /\ UNCHANGED <<fetchPc, window, loweredBusy>>

\* parse(url) is called: await this.getHtmlByElectron(url). (A parse is begun
\* only while task ids are left for it and for the fallbacks still to come.)
ParseCalled(p) ==
    /\ pfPc[p] = "idle"
    /\ nextId + Cardinality({q \in Parses : pfPc[q] = "render"}) + 2 <= MaxTasks
    /\ EnqueueFetch(p, "render")
    /\ pfPc' = [pfPc EXCEPT ![p] = "render"]
    /\ UNCHANGED <<imageVars, enrichVars, tryVars, scrapeVars, localVars, rescrapeVars,
                   faviconVars, embedVars>>

\* the awaited fetch has returned: a falsy render result makes parse call
\* getHtmlByRequest; otherwise parse goes on with the HTML or throws
ParseResumes(p) ==
    /\ pfPc[p] \in {"render", "request"}
    /\ AwaitReturned(FetchOf(p))
    /\ \E out \in YieldOf(FetchOf(p)) :
          IF IsFalsy(OrNull(TRUE, out))
          THEN IF pfPc[p] = "render"
               THEN /\ EnqueueFetch(p, "request")
                    /\ pfPc' = [pfPc EXCEPT ![p] = "request"]
               ELSE /\ pfPc' = [pfPc EXCEPT ![p] = "noHtml"]
                    /\ UNCHANGED <<limiterVars, fetchVars, fetchOwner>>
          ELSE /\ pfPc' = [pfPc EXCEPT ![p] = "html"]
               /\ UNCHANGED <<limiterVars, fetchVars, fetchOwner>>
    /\ UNCHANGED <<imageVars, enrichVars, tryVars, scrapeVars, localVars, rescrapeVars,
                   faviconVars, embedVars>>

\* the microtask at the head of the queue runs
RunFetchMicrotask == RenderStarts \/ RenderStartThrows \/ HttpRequestStarts \/ FetchCompletes

\* the I/O a running fetch waits for completes
FetchSettles(t) ==
    \/ \E loaded \in BOOLEAN : RenderLoadSettles(t, loaded)
    \/ \E evaluated \in BOOLEAN : RenderScriptSettles(t, evaluated)
    \/ \E ok \in BOOLEAN : HttpRequestSettles(t, ok)

NextParseFetch ==
    \/ \E p \in Parses : ParseCalled(p)
    \/ \E p \in Parses : ParseResumes(p)
    \/ RenderStarts
    \/ RenderStartThrows
    \/ HttpRequestStarts
    \/ FetchCompletes
    \/ \E t \in Tasks, loaded \in BOOLEAN : RenderLoadSettles(t, loaded)
    \/ \E t \in Tasks, evaluated \in BOOLEAN : RenderScriptSettles(t, evaluated)
    \/ \E t \in Tasks, ok \in BOOLEAN : HttpRequestSettles(t, ok)

InitLimiter == \E c \in 1..MaxCeiling : InitLimiterWith(c)

Init ==
    /\ InitLimiter
    /\ InitImage
    /\ InitEnrich
    /\ InitTry
    /\ InitScrape
    /\ InitLocal
    /\ InitFetch
    /\ NoRescrape
    /\ InitFavicon
    /\ InitParseFetch
    /\ InitEmbed

SpecLimiter == Init /\ [][NextLimiter]_vars

\* the event loop always runs a queued microtask; every started task settles
SpecLimiterFair ==
    /\ Init /\ [][NextLimiter]_vars
    /\ WF_vars(RunMicrotask)
    /\ \A t \in Tasks : WF_vars(TaskSettles(t))

\* the resolver on its own: the limiter is constructed and left idle
InitIdleLimiter ==
    /\ InitLimiterWith(1)
    /\ InitImage
    /\ InitEnrich
    /\ InitTry
    /\ InitScrape
    /\ InitLocal
    /\ InitFetch
    /\ NoRescrape
    /\ InitFavicon
    /\ InitParseFetch
    /\ InitEmbed

SpecImage == InitIdleLimiter /\ [][NextImage]_vars

SpecEnrich == InitIdleLimiter /\ [][NextEnrich]_vars

SpecTry == InitIdleLimiter /\ [][NextTry]_vars

SpecScrape == InitIdleLimiter /\ [][NextScrape]_vars

SpecLocal == InitIdleLimiter /\ [][NextLocal]_vars

\* LocalParser.initLimiter(c) has created the limiter
SpecFetch == Init /\ [][NextFetch]_vars

\* the limiter idle, one page and its load outcomes fixed
InitPage ==
    /\ InitLimiterWith(1)
    /\ InitImage
    /\ InitEnrich
    /\ InitTry
    /\ InitScrape
    /\ InitLocal
    /\ InitFetch
    /\ InitRescrape
    /\ InitFavicon
    /\ InitParseFetch
    /\ InitEmbed

SpecRescrape == InitPage /\ [][NextRescrape]_vars

\* the page whose og:image the embed block shows
InitRenderedPage ==
    /\ InitPage
    /\ rsDoc.dom.og = CdnImage

\* the page scraped again while its embed block is rendered
SpecRendered == InitRenderedPage /\ [][NextRendered]_vars

SpecFavicon == InitIdleLimiter /\ [][NextFavicon]_vars

SpecEmbed == InitIdleLimiter /\ [][NextEmbed]_vars

\* the limiter with ceiling 1; the event loop always runs a queued microtask,
\* every fetch that has started settles, every await that can return does
SpecParseFetchFair ==
    /\ InitIdleLimiter /\ [][NextParseFetch]_vars
    /\ WF_vars(RunFetchMicrotask)
    /\ \A t \in Tasks : WF_vars(FetchSettles(t))
    /\ \A p \in Parses : WF_vars(ParseResumes(p))
(* ---------------- claims: tryParsers ---------------- *)

IsPrefix(s, t) == Len(s) <= Len(t) /\ \A i \in 1..Len(s) : s[i] = t[i]

\* C1: the parsers are attempted in list order; the call returns the data of
\* the first parser whose parse succeeds, tagged with that parser's name, and
\* no parser after it is created or run.
C1_FirstSuccessWins ==
    /\ IsPrefix(tpAttempted, tpList)
    /\ tpPc = "parsing" => Len(tpAttempted) = tpIdx + 1 /\ Len(tpErrors) = tpIdx
    /\ tpPc = "returned" =>
          /\ Len(tpAttempted) = tpIdx + 1
          /\ tpResult.selectedParser = tpList[tpIdx + 1]
          /\ tpResult.data = [by |-> tpList[tpIdx + 1], at |-> tpIdx]
          /\ Len(tpErrors) = tpIdx
          /\ \A i \in 1..tpIdx : tpErrors[i].at = i - 1
          /\ tpThrown = NoError

C1_Witness ==
    /\ tpPc = "returned"
    /\ Len(tpList) = 3
    /\ tpIdx = 1
    /\ tpList[1] # tpList[2]
    /\ tpErrors[1].kind = "ParseFailure"

\* C2: when every parser of the list fails (also for the empty list) the
\* call rejects and returns no result; for a non-empty list it rejects with
\* exactly the error raised by the last parser of the list.
C2_AllFailRejectsWithLast ==
    /\ (tpPc \notin {"idle", "parsing"} /\ Len(tpErrors) = Len(tpList)) =>
          /\ tpPc = "rejected"
          /\ tpResult = NoTryResult
          /\ Len(tpList) > 0 =>
                /\ tpThrown = tpErrors[Len(tpList)]
                /\ tpThrown.at = Len(tpList) - 1
                /\ tpThrown.kind \in {"ParseFailure", "MissingCredential", "UnknownParser"}
          /\ Len(tpList) = 0 => tpThrown.kind = "AllParsersFailed"
    /\ tpPc = "rejected" => Len(tpErrors) = Len(tpList) /\ Len(tpAttempted) = Len(tpList)
    /\ tpPc = "returned" => Len(tpErrors) < Len(tpList)

C2_Witness ==
    /\ tpPc = "rejected"
    /\ Len(tpList) = 3
    /\ tpErrors[1].kind = "MissingCredential"
    /\ tpErrors[2].kind = "ParseFailure"
    /\ tpThrown = [kind |-> "ParseFailure", at |-> 2]

(* ---------------- claims: ConcurrencyLimiter ---------------- *)

\* tasks whose body has been invoked and whose promise has not settled yet
Executing == {t \in Tasks : taskState[t] = "executing"}
\* tasks admitted by processQueue whose finally block has not run yet
Admitted == {t \in Tasks : taskState[t] \in {"admitted", "executing", "settled"}}

\* C3: while the ceiling stays fixed at C >= 1, the number of tasks started
\* and not yet settled never exceeds C (nor does the number of admitted
\* tasks, which is what runningTasks counts).
C3_AtMostCeilingRunning ==
    ceilingFixed =>
        /\ Cardinality(Executing) <= maxConcurrency
        /\ Cardinality(Admitted) <= maxConcurrency
        /\ runningTasks = Cardinality(Admitted)

C3_Witness ==
    /\ ceilingFixed
    /\ Cardinality(Executing) = maxConcurrency
    /\ Len(queue) > 0
    /\ \E t \in Tasks : taskState[t] = "done"

\* C4: with ceiling >= 1 and every started task settling, every enqueued
\* task is eventually started and the promise of its enqueue call settles.
C4_EveryTaskSettles ==
    \A t \in Tasks :
        (taskState[t] # "new") ~> (t \in Range(startOrder) /\ promise[t].state # "pending")

C4_Witness ==
    /\ \A t \in Tasks : taskState[t] = "done" /\ promise[t].state # "pending"
    /\ Len(startOrder) = MaxTasks

\* C5: the promise returned by enqueue(task) settles once, only after the
\* task has settled, and with the task's outcome: fulfilled with its value
\* when the task fulfils, rejected with its error when it rejects or throws.
C5_PromiseMirrorsTask ==
    \A t \in Tasks :
        /\ settleCalls[t] <= 1
        /\ (promise[t].state # "pending") <=> (settleCalls[t] = 1)
        /\ promise[t].state # "pending" =>
               /\ taskResult[t] # NoResult
               /\ promise[t].kind = taskResult[t].kind
               /\ promise[t].of = t
               /\ (taskResult[t].kind = "value") <=> (promise[t].state = "fulfilled")
               /\ (taskResult[t].kind = "error") <=> (promise[t].state = "rejected")
        /\ taskState[t] = "done" => promise[t].state # "pending"

C5_Witness ==
    /\ \E t \in Tasks : promise[t].state = "fulfilled"
    /\ \E t \in Tasks : promise[t].state = "rejected"
    /\ \E t \in Tasks : taskState[t] = "settled" /\ promise[t].state = "pending"

\* C6: tasks are started in the order in which they were enqueued, under
\* every interleaving of enqueue, completion and setMaxConcurrency.
C6_FifoStart ==
    /\ \A i, j \in DOMAIN startOrder : i < j => startOrder[i] < startOrder[j]
    /\ \A t1, t2 \in Tasks :
          (t1 < t2 /\ taskState[t2] \notin {"new", "queued"}) =>
              taskState[t1] \notin {"new", "queued"}

C6_Witness ==
    /\ Len(startOrder) = MaxTasks
    /\ ~ceilingFixed
    /\ \E t \in Tasks : taskResult[t].kind = "error"

(* ---------------- claims: createParser, notices ---------------- *)

\* the errors recorded for the parser at position j of the list
ErrorsAt(j) == {e \in Range(tpErrors) : e.at = j - 1}

\* C12: createParser fails with a missing-credential error exactly when
\* the name is one of jsonlink, iframely, linkpreview and its key is not in
\* the settings, fails with an unknown-parser error exactly for names
\* outside the five known ones, and otherwise returns an instance, on
\* which parse is then started.
C12_CreateParserOutcome ==
    \A j \in 1..Len(tpAttempted) :
        LET name == tpAttempted[j]
            missing == name \in {"jsonlink", "iframely", "linkpreview"} /\ name \notin tpKeys
            unknown == name \notin {"jsonlink", "microlink", "iframely", "local", "linkpreview"}
        IN /\ (\E e \in ErrorsAt(j) : e.kind = "MissingCredential") <=> missing
           /\ (\E e \in ErrorsAt(j) : e.kind = "UnknownParser") <=> unknown
           /\ (~missing /\ ~unknown) =>
                  \/ tpPc = "parsing" /\ tpIdx = j - 1
                  \/ tpPc = "returned" /\ tpResult.data = [by |-> name, at |-> j - 1]
                  \/ \E e \in ErrorsAt(j) : e.kind = "ParseFailure"

C12_Witness ==
    /\ tpPc = "parsing"
    /\ tpList = <<"linkpreview", "bogus", "jsonlink">>
    /\ tpKeys = {"jsonlink"}
    /\ tpErrors = <<[kind |-> "MissingCredential", at |-> 0], [kind |-> "UnknownParser", at |-> 1]>>

\* C20 as stated: the failure of a parser that is not the last of the list
\* produces no user-visible notice; notices are shown only once the whole
\* list has been exhausted.
C20_NoticeOnlyAfterExhaustion ==
    tpNotices # << >> => tpPc = "rejected"

(* ---------------- claims: scraping and adapter functions ---------------- *)

HasRawNewline(str) == "nl" \in Range(str)

\* a backslash that is not half of a doubled pair
RECURSIVE HasUnescapedBackslash(_)
HasUnescapedBackslash(str) ==
    IF str = << >> THEN FALSE
    ELSE IF Head(str) # "bs" THEN HasUnescapedBackslash(Tail(str))
    ELSE IF Len(str) >= 2 /\ str[2] = "bs" THEN HasUnescapedBackslash(Tail(Tail(str)))
    ELSE TRUE

LineSafe(str) == ~HasRawNewline(str) /\ ~HasUnescapedBackslash(str)

\* C13 as stated: for every parser variant and every input, the title and
\* the description that process returns (and parse passes on unchanged)
\* contain no raw newline and no unescaped backslash.
C13_TitleAndDescriptionLineSafe ==
    (scPc = "returned" /\ scFn \in RemoteVariants \cup {"local"} /\ scOut.ok) =>
        (LineSafe(scOut.title) /\ LineSafe(scOut.description))

\* the object that holds title and description in a variant's response
BodyOf(variant, data) ==
    CASE variant = "microlink" -> IF "data" \in DOMAIN data THEN data["data"] ELSE << >>
      [] variant = "iframely" -> IF "meta" \in DOMAIN data THEN data["meta"] ELSE << >>
      [] OTHER -> data

\* the response has no image (or image list) field
ImageMissing(variant, data) ==
    CASE variant = "jsonlink" -> "images" \notin DOMAIN data
      [] variant = "microlink" ->
            "image" \notin DOMAIN BodyOf(variant, data) /\ "logo" \notin DOMAIN BodyOf(variant, data)
      [] variant = "iframely" ->
            "links" \notin DOMAIN data \/ "thumbnail" \notin DOMAIN data["links"]
      [] OTHER -> "image" \notin DOMAIN data

\* C14 as stated: for every remote variant, whatever fields are missing from
\* the response (title, image or image list, description, the enclosing
\* object), process does not fail and returns the empty string for each
\* missing field.
C14_MissingFieldsDefaultToEmpty ==
    (scPc = "returned" /\ scFn \in RemoteVariants) =>
        /\ scOut.ok
        /\ "title" \notin DOMAIN BodyOf(scFn, scIn.data) => scOut.title = << >>
        /\ "description" \notin DOMAIN BodyOf(scFn, scIn.data) => scOut.description = << >>
        /\ ImageMissing(scFn, scIn.data) => scOut.image = << >>

\* C17 as stated: the title is the content of the og:title meta tag when
\* one exists, otherwise the text of <title> when one exists, otherwise the
\* hostname of the page URL.
C17_TitlePreference ==
    (scPc = "returned" /\ scFn = "getTitle") =>
        LET doc == scIn.doc
        IN scOut.title = IF doc.metas # << >> THEN doc.metas[1].content
                         ELSE IF doc.titles # << >> THEN doc.titles[1].text
                         ELSE <<"example.com">>

\* positions of the elements that sit inside <head>
HeadPositions(elems) == {i \in DOMAIN elems : elems[i].where = "head"}
First(S) == CHOOSE i \in S : \A j \in S : i <= j

\* C17 (amended): the title is the content of the first og:title meta tag
\* inside <head> when there is one, otherwise the text of the first <title>
\* inside <head> when there is one, otherwise the hostname of the page URL;
\* og:title and <title> elements outside <head> are not consulted.
C17_TitlePreferenceInHead ==
    (scPc = "returned" /\ scFn = "getTitle") =>
        LET doc == scIn.doc
            metas == HeadPositions(doc.metas)
            titles == HeadPositions(doc.titles)
        IN /\ metas # {} => scOut.title = doc.metas[First(metas)].content
           /\ (metas = {} /\ titles # {}) => scOut.title = doc.titles[First(titles)].text
           /\ (metas = {} /\ titles = {}) => scOut.title = <<"example.com">>

C17_Witness ==
    /\ scPc = "returned" /\ scFn = "getTitle"
    /\ scIn.doc.metas = <<[where |-> "body", content |-> <<"b">>],
                          [where |-> "head", content |-> <<"a">>]>>
    /\ scIn.doc.titles = <<[where |-> "head", text |-> <<"b">>]>>
    /\ scOut.title = <<"a">>

Ancestors(chain) == {chain[i] : i \in 2..Len(chain)}

\* C18 as stated: an element whose inline style matches display:none is
\* rejected unless it is a logo image (src or alt containing "logo", or src
\* ending in .svg); a logo image is accepted even with display:none and even
\* inside a header-marked container, a non-logo image there is rejected.
C18_LogoExemptFromDisplayNone ==
    (scPc = "returned" /\ scFn = "meetsCriteria") =>
        LET el == scIn.element[1]
        IN /\ IsLogoImage(el) => scOut.visible = TRUE
           /\ (~IsLogoImage(el) /\ MatchesDisplayNone(el.style)) => scOut.visible = FALSE
           /\ (~IsLogoImage(el) /\ \E a \in Ancestors(scIn.element) : HeaderMarked(a)) => scOut.visible = FALSE

\* C18 (amended): every element whose own inline style matches display:none
\* is rejected, a logo image included; a logo image whose own style does not
\* match is accepted whatever its ancestors are (header-marked or
\* display:none); a non-logo image whose own style does not match is
\* accepted exactly when no ancestor has display:none and no ancestor is
\* header-marked.
C18_OwnDisplayNoneRejectsLogoToo ==
    (scPc = "returned" /\ scFn = "meetsCriteria") =>
        LET el == scIn.element[1]
            hidden == MatchesDisplayNone(el.style)
        IN /\ hidden => scOut.visible = FALSE
           /\ (~hidden /\ IsLogoImage(el)) => scOut.visible = TRUE
           /\ (~hidden /\ ~IsLogoImage(el)) =>
                 scOut.visible = ~(\E a \in Ancestors(scIn.element) :
                              MatchesDisplayNone(a.style) \/ HeaderMarked(a))

C18_Witness ==
    /\ scPc = "returned" /\ scFn = "meetsCriteria"
    /\ scIn.element[1].src = <<"icon", ".svg">>
    /\ scIn.element[1].style = <<"display:", "none">>
    /\ Len(scIn.element) = 2
    /\ scIn.element[2].id = <<"site-", "Header">>
    /\ scOut.visible = FALSE

(* ---------------- claims: getImageDimensions ---------------- *)

\* calls for the key suspended on an image load, and calls already settled
LoadingFor(k) == BagToSet(LoadsOf(inflight, k))
NLoading(k) == BagCardinality(LoadsOf(inflight, k))
NDone(k) == seqCalls[k] - NLoading(k)
\* loads started, after the ceiling was reached, by calls given both maps
LateLoads(k) == {c \in LoadingFor(k) : c.late /\ c.withCache /\ c.withCounter}

C8_CacheHitIsPure ==
    [][\A k \in ImageKeys, wn \in BOOLEAN :
          (k \in DOMAIN cache /\ GetImageDimensions(k, TRUE, wn)) =>
              /\ cache' = cache
              /\ imageLoadAttempts' = imageLoadAttempts
              /\ inflight' = inflight
              /\ lastOutcome' = [key |-> k, how |-> "returned",
                                  value |-> cache[k], via |-> "cache"]]_vars

C8_Witness ==
    \E k \in ImageKeys :
        /\ lastOutcome.key = k
        /\ lastOutcome.via = "cache"
        /\ lastOutcome.value.aspectRatio = 300
        /\ k \in DOMAIN imageLoadAttempts
        /\ LoadingFor(k) # {}

\* C9 as stated: once the recorded attempts for a key reach 5, the key is
\* resolved to the default dimensions, its attempt-counter entry is removed
\* and no later call with the same cache and counter starts a load.
C9_EntryRemovedAtCeiling ==
    \A k \in ImageKeys :
        reachedCeiling[k] # "no" =>
            /\ k \in DOMAIN cache
            /\ k \notin DOMAIN imageLoadAttempts
            /\ LateLoads(k) = {}

\* C9 (amended): the call that records the 5th failure resolves to the
\* default dimensions and memoizes them, the attempt-counter entry is left
\* in place at 5 (unless another load of the key was in flight at that
\* moment it stays there, and the cached default stays too), and no later
\* call given the same cache and counter starts a load for the key.
C9_CeilingKeepsEntry ==
    /\ [](\A k \in ImageKeys :
            reachedCeiling[k] # "no" =>
                /\ k \in DOMAIN cache
                /\ LateLoads(k) = {}
                /\ reachedCeiling[k] = "quiet" =>
                       /\ cache[k] = DEFAULT_IMAGE_DIMENSIONS
                       /\ k \in DOMAIN imageLoadAttempts
                       /\ imageLoadAttempts[k] = MAX_LOAD_ATTEMPTS)
    /\ [][\A c \in BagToSet(inflight) :
            (c.withCache /\ c.withCounter /\ c.attempts + 1 >= MAX_LOAD_ATTEMPTS
               /\ ImgOnError(c)) =>
                /\ cache'[c.key] = DEFAULT_IMAGE_DIMENSIONS
                /\ c.key \in DOMAIN imageLoadAttempts'
                /\ imageLoadAttempts'[c.key] = MAX_LOAD_ATTEMPTS
                /\ lastOutcome' = [key |-> c.key, how |-> "returned",
                                    value |-> DEFAULT_IMAGE_DIMENSIONS,
                                    via |-> "load"]]_vars

C9_Witness ==
    \E k \in ImageKeys :
        /\ reachedCeiling[k] = "quiet"
        /\ ~clean[k]
        /\ LoadingFor(k) = {}
        /\ lastOutcome.key = k
        /\ lastOutcome.via = "cache"
        /\ k \in DOMAIN imageLoadAttempts /\ imageLoadAttempts[k] = MAX_LOAD_ATTEMPTS

(* ---------------- claims: Parser.handleImageProcessing ---------------- *)

\* C19 as stated, for a parse started through tryParsers: with
\* saveImagesToVault configured and a non-empty image URL found, a download
\* into the vault is attempted, so the returned image is the local vault
\* path or the download is recorded as failed.
C19_VaultDownloadAttempted ==
    (/\ hipPc = "done"
     /\ hipConfig.createdBy = "tryParsers"
     /\ hipConfig.saveImagesToVault
     /\ hipInput.image = "https://img") =>
        (hipResult.image = LocalPath \/ "vault" \in hipFailed)

\* C10: handleImageProcessing never rejects; whichever of the favicon
\* backfill, the vault download and the aspect-ratio resolution fails, the
\* result keeps the title, description and url produced by process, and the
\* failed stage's field is left absent or unchanged.
C10_EnrichmentNeverRejects ==
    /\ hipPc # "rejected"
    /\ hipPc # "idle" =>
          /\ hipResult.title = hipInput.title
          /\ hipResult.description = hipInput.description
          /\ hipResult.url = PageUrl
          /\ "favicon" \in hipFailed => hipResult.favicon = hipInput.favicon
          /\ "vault" \in hipFailed => hipResult.image = hipInput.image
          /\ "aspect" \in hipFailed => hipResult.aspectRatio = Absent
          /\ "aspectNull" \in hipFailed => hipResult.aspectRatio = Absent
    /\ hipFailed # {} =>
          hipPc \in {"vault", "aspect", "done"}

C10_Witness ==
    /\ hipPc = "done"
    /\ hipFailed = {"favicon", "vault", "aspect"}
    /\ hipResult.title = "Title B"
    /\ hipResult.image = "https://img"

(* ---- LocalParser.parse ---- *)

FetchSteps == {"getHtmlByElectron", "getHtmlByRequest"}
NoHtml(html) == html # "html"

\* C11: LocalParser.parse first tries the embedded-browser render; the plain
\* HTTP GET is issued only when the render yielded no HTML; when both yielded
\* no HTML the parse rejects with a fetch failure, and no scraping or
\* enrichment step runs without HTML.
C11_RenderThenGetThenReject ==
    /\ lpSteps # << >> => lpSteps[1] = "getHtmlByElectron"
    /\ "getHtmlByRequest" \in Range(lpSteps) =>
          /\ lpSteps[2] = "getHtmlByRequest"
          /\ lpHtml.electron \notin {"notTried", "html"}
    /\ lpHtml.request # "notTried" => "getHtmlByRequest" \in Range(lpSteps)
    /\ (lpHtml.electron = "null" /\ lpHtml.request = "null") =>
          /\ lpPc = "rejected"
          /\ lpThrown = "FetchFailure"
    /\ (NoHtml(lpHtml.electron) /\ NoHtml(lpHtml.request)) =>
          /\ Range(lpSteps) \subseteq FetchSteps
          /\ lpScraped = NoScraped
          /\ lpResult = NoLocalResult
    /\ lpPc = "rejected" => (lpHtml.electron = "null" /\ lpHtml.request = "null")

\* the render yielded nothing, the GET was issued and yielded nothing: rejected
C11_Witness ==
    /\ lpPc = "rejected"
    /\ lpThrown = "FetchFailure"
    /\ lpSteps = <<"getHtmlByElectron", "getHtmlByRequest">>
    /\ lpHtml = [electron |-> "null", request |-> "null"]

\* the URLs of the candidates (hrefs in priority order) that can be verified
\* at all: element present, href not empty, accepted by new URL()
RECURSIVE UsableUrls(_)
UsableUrls(hrefs) ==
    IF hrefs = << >> THEN << >>
    ELSE LET rest == UsableUrls(Tail(hrefs))
             h == Head(hrefs)
         IN IF h \in {NoElement, << >>, InvalidHref} THEN rest
            ELSE <<Resolve(h, PageURL.href)>> \o rest

\* result is the first of urls (in order) whose load succeeded, given the
\* loads made (tried): every load before the last failed, the loads follow
\* the order of urls (one load per URL), every URL before the result was
\* loaded and failed; when no load succeeded every URL was loaded and the
\* result is the fallback
FirstLoadable(urls, tried, result, fallback) ==
    LET loaded == [i \in DOMAIN tried |-> tried[i].url]
        failed == {tried[i].url : i \in {j \in DOMAIN tried : ~tried[j].ok}}
        won == tried # << >> /\ tried[Len(tried)].ok
    IN /\ \A i \in DOMAIN tried : i < Len(tried) => ~tried[i].ok
       /\ \A i, j \in DOMAIN tried : i # j => tried[i].url # tried[j].url
       /\ Range(loaded) \subseteq Range(urls)
       /\ \A i, j \in DOMAIN tried : i < j =>
             \E a, b \in DOMAIN urls :
                /\ a < b
                /\ urls[a] = loaded[i]
                /\ urls[b] = loaded[j]
                /\ \A c \in 1..(a - 1) : urls[c] # loaded[i]
                /\ \A c \in 1..(b - 1) : urls[c] # loaded[j]
       /\ IF won
          THEN /\ result = tried[Len(tried)].url
               /\ result \notin failed
               /\ \E a \in DOMAIN urls :
                     /\ urls[a] = result
                     /\ \A c \in 1..(a - 1) : urls[c] \in failed
          ELSE /\ result = fallback
               /\ Range(urls) = failed

\* C15: getFavicon always returns a non-empty string: the first candidate, in
\* the order link[rel=icon], link[rel="shortcut icon"],
\* link[rel=apple-touch-icon], link[rel=apple-touch-icon-precomposed],
\* /favicon.ico, whose URL loads, and the embedded default icon when none does.
C15_FaviconFirstLoadableOrDefault ==
    [][(lpPc = "favicon" /\ lpPc' = "faviconReturned") =>
          LET links == lpDom.links
              hrefs == <<links["icon"], links["shortcut icon"], links["apple-touch-icon"],
                         links["apple-touch-icon-precomposed"], <<"/favicon.ico">>>>
          IN /\ lpScraped'.favicon # << >>
             /\ DefaultFaviconDataUri # << >>
             /\ FirstLoadable(UsableUrls(hrefs), lpTried', lpScraped'.favicon,
                              DefaultFaviconDataUri)]_vars

\* the icon link and /favicon.ico both failed to load: the default is returned
C15_Witness ==
    /\ lpPc = "faviconReturned"
    /\ lpScraped.favicon = DefaultFaviconDataUri
    /\ lpTried = <<[url |-> CdnIcon, ok |-> FALSE],
                   [url |-> Resolve(FaviconIcoPath, PageURL.href), ok |-> FALSE]>>

\* the src of the visible img elements a selector matches, in document order
RECURSIVE VisibleSrcs(_, _)
VisibleSrcs(sel, imgs) ==
    IF imgs = << >> THEN << >>
    ELSE LET img == Head(imgs)
             rest == VisibleSrcs(sel, Tail(imgs))
         IN IF Matches(sel, img) /\ MeetsCriteria(img.chain)
            THEN <<img.chain[1].src>> \o rest
            ELSE rest

RECURSIVE PrioritySrcs(_, _)
PrioritySrcs(sels, imgs) ==
    IF sels = << >> THEN << >>
    ELSE VisibleSrcs(Head(sels), imgs) \o PrioritySrcs(Tail(sels), imgs)

C21_WorkConserving ==
    queue # << >> => runningTasks >= maxConcurrency

\* C22: setMaxConcurrency with a value below the number of running tasks
\* aborts none of them: the call leaves every running task and its promise
\* as they were, a promise is only ever settled by its own task's outcome,
\* and a task is started only in a step that leaves the running count at or
\* below the ceiling then in force.
C22_LoweringAbortsNothing ==
    [][/\ maxConcurrency' < runningTasks =>
             \A t \in Tasks :
                 taskState[t] \in {"admitted", "executing", "settled"} =>
                     \/ /\ maxConcurrency' # maxConcurrency
                        /\ taskState'[t] = taskState[t]
                        /\ promise'[t] = promise[t]
                        /\ taskResult'[t] = taskResult[t]
                     \/ /\ maxConcurrency' = maxConcurrency
                        /\ taskState'[t] \in {"admitted", "executing", "settled", "done"}
       /\ \A t \in Tasks :
             (taskState[t] \in {"new", "queued"} /\ taskState'[t] \notin {"new", "queued"}) =>
                 /\ taskState'[t] = "admitted"
                 /\ runningTasks' <= maxConcurrency'
       /\ \A t \in Tasks :
             (promise[t].state = "pending" /\ promise'[t].state # "pending") =>
                 /\ taskState'[t] = "done"
                 /\ taskResult'[t].of = t
                 /\ promise'[t].of = t
                 /\ promise'[t].kind = taskResult'[t].kind
                 /\ (promise'[t].state = "fulfilled") <=> (taskResult'[t].kind = "value")]_vars

\* the ceiling was lowered while three tasks ran: two of them have since
\* settled their promises with their own outcomes, the third still runs,
\* and the queued task has not been started
C22_Witness ==
    /\ maxConcurrency = 1
    /\ runningTasks = 1
    /\ queue = <<4>>
    /\ startOrder = <<1, 2, 3>>
    /\ taskState[1] = "done" /\ promise[1].state = "fulfilled"
    /\ taskState[2] = "done" /\ promise[2].state = "rejected"
    /\ taskState[3] = "executing"

\* a step in which the promise of t rejects leaves every other task's
\* promise and result as they were, and the state of every other task too,
\* except the queued task the step starts
OnlyOwnPromiseRejects(t) ==
    /\ taskResult'[t] = [kind |-> "error", of |-> t]
    /\ promise'[t].of = t
    /\ \A u \in Tasks \ {t} :
          /\ promise'[u] = promise[u]
          /\ taskResult'[u] = taskResult[u]
          /\ taskState'[u] # taskState[u] =>
                (queue # << >> /\ u = Head(queue) /\ taskState'[u] = "admitted")

\* the step starts the head of the queue in the slot it has just freed
StartsNextQueued ==
    /\ queue' = Tail(queue)
    /\ taskState'[Head(queue)] = "admitted"
    /\ runningTasks' = runningTasks
    /\ microtasks'[Len(microtasks')] = [kind |-> "start", t |-> Head(queue)]

\* C27 as stated: when a task rejects, only its own promise rejects, the
\* running count is decremented and the next queued task, if any, is started.
C27_RejectionIsolated ==
    [][\A t \in Tasks :
          (promise[t].state = "pending" /\ promise'[t].state = "rejected") =>
              /\ OnlyOwnPromiseRejects(t)
              /\ IF queue # << >>
                 THEN StartsNextQueued
                 ELSE runningTasks' = runningTasks - 1 /\ queue' = queue]_vars

\* C27 (amended): when a task rejects, only its own promise rejects and the
\* running count is decremented; the next queued task, if any, is started
\* when the decremented count is below the ceiling, and stays queued when the
\* ceiling has been lowered to or below it.
C27_RejectionIsolatedUnderCeiling ==
    [][\A t \in Tasks :
          (promise[t].state = "pending" /\ promise'[t].state = "rejected") =>
              /\ OnlyOwnPromiseRejects(t)
              /\ IF queue # << >> /\ runningTasks - 1 < maxConcurrency
                 THEN StartsNextQueued
                 ELSE runningTasks' = runningTasks - 1 /\ queue' = queue]_vars

\* task 1 rejected: task 2 was started and fulfilled its promise, task 3 was
\* started after it, task 4 is still queued
C27_Witness ==
    /\ ceilingFixed
    /\ maxConcurrency = 1
    /\ promise[1].state = "rejected"
    /\ promise[2].state = "fulfilled"
    /\ taskState[3] = "executing"
    /\ promise[3].state = "pending"
    /\ queue = <<4>>

\* C28: no task body is executed inside enqueue or setMaxConcurrency: a step
\* that admits a task only schedules it (a start microtask is queued, the
\* body has not been invoked), and a body is invoked only by a later step
\* that runs that microtask, which is neither an enqueue nor a
\* setMaxConcurrency call.
C28_NeverStartedSynchronously ==
    [][/\ \A t \in Tasks :
             (taskState[t] \in {"new", "queued"} /\ taskState'[t] \notin {"new", "queued"}) =>
                 /\ taskState'[t] = "admitted"
                 /\ t \notin Range(startOrder')
                 /\ [kind |-> "start", t |-> t] \in Range(microtasks')
       /\ \A t \in Tasks :
             (t \in Range(startOrder') \ Range(startOrder)
              \/ (taskState[t] # "executing" /\ taskState'[t] = "executing")) =>
                 /\ taskState[t] = "admitted"
                 /\ microtasks # << >>
                 /\ Head(microtasks) = [kind |-> "start", t |-> t]
                 /\ nextId' = nextId
                 /\ maxConcurrency' = maxConcurrency]_vars

\* setMaxConcurrency(2) has admitted task 2 while task 1 runs: its body has
\* not been invoked, its start is the pending microtask
C28_Witness ==
    /\ ~ceilingFixed
    /\ maxConcurrency = 2
    /\ taskState[1] = "executing"
    /\ taskState[2] = "admitted"
    /\ startOrder = <<1>>
    /\ microtasks = <<[kind |-> "start", t |-> 2]>>
    /\ nextId = 2

(* ---- page fetches ---- *)

\* C23: every window opened by getHtmlByElectron is closed by the time its
\* render task settles, on the success path and on every failure path (load
\* failure, script-evaluation failure); no settled render leaves one open.
C23_WindowClosedWhenRenderSettles ==
    \A t \in Tasks :
        /\ taskState[t] \in {"settled", "done"} => window[t] # "open"
        /\ fetchPc[t] \in {"loadFailed", "scriptFailed", "rendered"} => window[t] = "closed"
        /\ window[t] = "open" => fetchPc[t] \in {"loading", "evaluating"}

\* three renders have settled, one on each path, and no window is open
C23_Witness ==
    /\ fetchPc = [t \in Tasks |-> IF t = 1 THEN "loadFailed"
                                  ELSE IF t = 2 THEN "scriptFailed"
                                  ELSE IF t = 3 THEN "rendered" ELSE "none"]
    /\ \A t \in 1..3 : taskState[t] = "done" /\ window[t] = "closed"

\* C25: the page renders and HTTP page fetches of all LocalParser instances
\* go through one limiter: the number executing at once never exceeds the
\* ceiling last set through initLimiter, provided the ceiling was not lowered
\* while tasks were running.
C25_FetchesWithinSharedCeiling ==
    ~loweredBusy => Cardinality({t \in Tasks : fetchPc[t] \in Fetching}) <= maxConcurrency

\* a render and a request execute under ceiling 2 (raised from 1) while a
\* third fetch waits in the queue
C25_Witness ==
    /\ ~loweredBusy
    /\ ~ceilingFixed
    /\ maxConcurrency = 2
    /\ fetchPc[1] = "evaluating"
    /\ fetchPc[2] = "requesting"
    /\ queue = <<3>>

(* ---- tryParsers: one attempt at a time ---- *)

\* C26: within one tryParsers call attempt N+1 is created and started only
\* after attempt N has settled with a failure: the attempts made exceed the
\* failures caught by at most one (the attempt in flight, or the one that
\* succeeded), the k-th failure is that of attempt k, and the attempt in
\* flight is the latest one made.
C26_AttemptsStrictlySequential ==
    LET started == Len(tpAttempted)
        failed == Len(tpErrors)
    IN /\ started - failed \in {0, 1}
       /\ (started - failed = 1) <=> (tpPc \in {"parsing", "returned"})
       /\ \A k \in 1..failed : tpErrors[k].at = k - 1
       /\ \A k \in 1..started : tpAttempted[k] = tpList[k]
       /\ tpPc = "parsing" => tpIdx = started - 1

\* the third attempt is in flight after the first failed in parse and the
\* second failed at creation
C26_Witness ==
    /\ tpPc = "parsing"
    /\ Len(tpAttempted) = 3
    /\ Len(tpErrors) = 2
    /\ tpErrors[1].kind = "ParseFailure"
    /\ tpErrors[2].kind = "MissingCredential"

(* ---- getImageDimensions: success after failures, concurrent failures ---- *)

\* C29: when a call given a cache and an attempt counter completes with a
\* successful load, the cache holds the measured dimensions for the key and
\* the counter has no entry for the key, whatever failures were recorded for
\* the key before the success.
C29_SuccessClearsCounter ==
    [][\A c \in BagToSet(inflight), size \in ImageSizes :
          (c.withCache /\ c.withCounter /\ ImgOnLoad(c, size)) =>
              /\ c.key \in DOMAIN cache'
              /\ cache'[c.key] = [width |-> size.width, height |-> size.height,
                                  aspectRatio |-> (size.height * 100) \div size.width]
              /\ c.key \notin DOMAIN imageLoadAttempts']_vars

\* C30: with a shared cache and attempt counter, the loads ever started for
\* one permanently failing key number at most 5, also when several calls for
\* the key are in flight at the same time.
C30_AtMostFiveLoadsPerFailingKey ==
    \A k \in ImageKeys : failingLoads[k].loads <= 5

(* ---------------- claims: scraping a page again ---------------- *)

\* C24: scraping the same HTML and base URL again, every candidate URL loading
\* or failing as in the first run, returns the title, image, description and
\* favicon of the first run, whatever the earlier runs left in the plugin's maps
C24_RescrapeIdentical ==
    \A i \in 1..Len(rsResults) :
        /\ rsResults[i].title = rsResults[1].title
        /\ rsResults[i].image = rsResults[1].image
        /\ rsResults[i].description = rsResults[1].description
        /\ rsResults[i].favicon = rsResults[1].favicon

\* a second run has returned after a first one that saw a link icon and the
\* og:image fail to load, chose an img element and left its dimensions cached
C24_Witness ==
    /\ Len(rsResults) >= 2
    /\ rsDoc.links["icon"] = CdnIcon /\ CdnIcon \notin rsLoads
    /\ rsDoc.dom.og = CdnImage /\ CdnImage \notin rsLoads
    /\ rsResults[1].image # << >>
    /\ rsResults[1].image \in rsCache
    /\ rsResults[1].favicon = Resolve(FaviconIcoPath, PageURL.href)

(* ---------------- claims: poisoned keys ---------------- *)

\* the key's cache entry is the default stored when a call recorded the 5th failure
Poisoned(k) ==
    /\ reachedCeiling[k] # "no"
    /\ k \in DOMAIN cache
    /\ cache[k] = DEFAULT_IMAGE_DIMENSIONS

\* C31: once a key is poisoned its cache entry never changes again, also when
\* a load of the key that was in flight at that moment completes afterwards
C31_PoisonedEntryNeverChanges ==
    [][\A k \in ImageKeys :
          Poisoned(k) => (k \in DOMAIN cache' /\ cache'[k] = cache[k])]_vars

(* ---------------- claims: verification within one parse ---------------- *)

\* the candidates of the scraping method that is suspended in verifyImageUrl
AwaitedCandidates ==
    IF lpPc = "favicon" THEN FaviconCandidates(lpDom.links) ELSE ImageCandidates(lpDom)

\* C32: within one parse no URL is load-verified twice: the URL whose load is
\* awaited, be it a favicon candidate, the og:image or an img element, is not
\* one whose load this parse has awaited before
C32_NoUrlVerifiedTwice ==
    lpPc \in {"favicon", "image"} =>
        Resolve(AwaitedCandidates[lpIdx].href, PageURL.href) \notin lpLoaded

\* the base the document declares, else the page URL
DeclaredBaseOr(dom, url) == IF dom.base # NoElement THEN dom.base ELSE url.href

\* C33: every image or favicon candidate that is verified was resolved
\* against the document's <base href> when the document declares one, and
\* against the page URL when it does not
C33_ResolvedAgainstDeclaredBase ==
    [][(lpPc \in {"favicon", "image"} /\ Len(lpTried') = Len(lpTried) + 1) =>
          lpTried'[Len(lpTried')].url =
              Resolve(AwaitedCandidates[lpIdx].href, DeclaredBaseOr(lpDom, PageURL))]_vars

(* ---------------- claims: the page fetch without a limiter ---------------- *)

C38_CachedFaviconIsString ==
    /\ fvCache.kind \in {"none", "string"}
    /\ fvReads \subseteq {"string"}

(* ---------------- claims: parses sharing one slot ---------------- *)

\* parse p has at most one fetch that is queued or holds a slot
AtMostOneSlot(p) ==
    Cardinality({t \in Tasks : fetchOwner[t] = p /\ taskState[t] \in Unfinished}) <= 1

\* C35: with ceiling 1, a parse never has more than one fetch in the limiter
\* (the render has left it before the HTTP fallback is enqueued), and every
\* parse that was called gets past its fetches
C35_OneSlotAndNoDeadlock ==
    /\ [](\A p \in Parses : AtMostOneSlot(p))
    /\ \A p \in Parses : (pfPc[p] = "render") ~> (pfPc[p] \in {"html", "noHtml"})

\* two parses have got past their fetches; the fetches of the first (a render
\* and the HTTP fallback) ran before and after the render of the second
C35_Witness ==
    /\ maxConcurrency = 1
    /\ \A p \in {1, 2} : pfPc[p] \in {"html", "noHtml"}
    /\ Len(startOrder) >= 3
    /\ fetchOwner[startOrder[1]] = 1
    /\ fetchOwner[startOrder[2]] = 2
    /\ fetchOwner[startOrder[3]] = 1

(* ---------------- claims: tryParsers, factory failures ---------------- *)

FactoryErrors == {"MissingCredential", "UnknownParser"}

\* C36: a parser whose creation throws (missing API key, unknown name) has
\* made a failed attempt like any other: its error is caught as the error of
\* that attempt, the next parser of the list is attempted, and the call
\* rejects with a factory error only if it is that of the last parser
C36_FactoryFailureIsAnAttempt ==
    /\ \A k \in 1..Len(tpErrors) :
          /\ tpErrors[k].kind \in FactoryErrors <=> ~CreateParser(tpList[k], tpKeys).ok
          /\ (tpErrors[k].kind \in FactoryErrors /\ k < Len(tpList)) =>
                /\ Len(tpAttempted) >= k + 1
                /\ tpAttempted[k + 1] = tpList[k + 1]
                /\ tpThrown # tpErrors[k]
    /\ (tpPc = "rejected" /\ tpThrown.kind \in FactoryErrors) =>
          /\ tpThrown.at = Len(tpList) - 1
          /\ ~CreateParser(tpList[Len(tpList)], tpKeys).ok
    /\ (Len(tpList) > 0 /\ Len(tpErrors) = Len(tpList)
          /\ tpErrors[Len(tpList)].kind \in FactoryErrors) =>
          /\ tpPc = "rejected"
          /\ tpThrown = tpErrors[Len(tpList)]

\* the third parser returned after the factory had thrown for the first
\* (no API key) and for the second (unknown name)
C36_Witness ==
    /\ tpPc = "returned"
    /\ Len(tpList) = 3
    /\ tpErrors = <<[kind |-> "MissingCredential", at |-> 0],
                    [kind |-> "UnknownParser", at |-> 1]>>
    /\ tpResult.selectedParser = tpList[3]

(* ---------------- claims: verification and the plugin's maps ---------------- *)

\* C37: verification hands getImageDimensions neither the cache nor the attempt
\* counter, so every scrape rejects a candidate whose load fails, however often
\* its load failed before: no run returns as image or favicon a URL that does
\* not load, even when its counter had reached the ceiling before the run
C37_FailingCandidateAlwaysRejected ==
    \A i \in 1..Len(rsResults) :
        /\ rsResults[i].image = << >> \/ rsResults[i].image \in rsLoads
        /\ rsResults[i].favicon = DefaultFaviconDataUri \/ rsResults[i].favicon \in rsLoads

\* a run began when renders had driven the counter of the og:image, which does
\* not load, to the ceiling and left the default in the cache; the run went
\* past it to an img element
C37_Witness ==
    /\ RenderedImage \notin rsLoads
    /\ RenderedImage \in rsCache
    /\ \E i \in 1..Len(rsResults) :
          /\ RenderedImage \in rsAtCeiling[i]
          /\ rsResults[i].image \in rsLoads

(* ---------------- claims: the placeholder ---------------- *)

\* C39: embedUrl writes between the placeholder's positions at most once, the
\* final embed, and only when tryParsers returned a result and the text between
\* the positions is still the placeholder; after a deleted or modified
\* placeholder, or when every parser failed, it edits the text no more
C39_ReplacedOnceAndOnlyIfIntact ==
    [][/\ (euPc = "done") => euDoc' = euDoc
       /\ (euPc \in {"parsing", "delay"} /\ euUserEdits' = euUserEdits /\ euDoc' # euDoc) =>
             /\ euPc' = "done"
             /\ euParsed'
             /\ GetRange(euDoc, euStart, euEnd) = DummyEmbed
             /\ euDoc' = ReplaceRange(euDoc, FinalEmbed, euStart, euEnd)
       /\ (euPc \in {"parsing", "delay"} /\ euPc' = "done"
             /\ (~euParsed' \/ GetRange(euDoc, euStart, euEnd) # DummyEmbed)) =>
             euDoc' = euDoc]_vars

\* the user typed around the placeholder during the wait and left it as it
\* was: the final embed stands between the text typed before and after it
C39_Witness ==
    /\ euOutcome = "replaced"
    /\ euUserEdits = MaxEdits
    /\ GetRange(euDoc, euStart, PosAt(euDoc, OffsetOf(euDoc, euStart) + Len(FinalEmbed))) = FinalEmbed
    /\ OffsetOf(euDoc, euStart) + Len(FinalEmbed) < Len(euDoc)

====
